---- MODULE Spec2Model ----
(***************************************************************************)
(* Model of mcp-winauto's automation engine (src/automation.py): the       *)
(* bounded executor _run_with_timeout, the Win32 dialog detector, the      *)
(* WindowManager.window target resolver and the WindowManager actions.     *)
(*                                                                         *)
(* The caller (the transport) is one thread that runs one action at a      *)
(* time; pc is its position.  Each ThreadPoolExecutor(max_workers=1) has   *)
(* its own worker thread, whose steps (WorkerStart, WorkerFinish)          *)
(* interleave with the caller's.  The target application is the            *)
(* environment: it opens and closes dialogs at any moment, and decides     *)
(* whether a call into its UI thread returns, raises or blocks.            *)
(***************************************************************************)
EXTENDS Integers, Sequences, FiniteSets, TLC

None == "None"

(* ------------------------------ bounds -------------------------------- *)

\* Executor replacements (timeouts) explored in one behaviour.
MaxTimeouts == 1
\* Longest menu path, in segments.
MaxSegs == 3

(* ------------------------- program constants -------------------------- *)

\* ThreadPoolExecutor(max_workers=1)
MaxWorkers == 1

(* ---------------------------- environment ----------------------------- *)

\* Top-level windows of the desktop, by handle.
Handles == {"hMain", "hDlgA", "hDlgB", "hOther"}

\* EnumWindows visits the top-level windows in this order.
EnumOrder == <<"hOther", "hDlgB", "hMain", "hDlgA">>

\* GetWindowThreadProcessId: the process owning each window.
OwnerPid == [h \in Handles |-> IF h = "hOther" THEN "pidOther" ELSE "pidApp"]

\* GetWindowTextW: the window text of each window.
WindowText == [h \in Handles |->
                 CASE h = "hMain" -> "App"
                   [] h = "hDlgA" -> "Confirm"
                   [] h = "hDlgB" -> ""
                   [] OTHER -> "Other"]

\* The top windows of the two running applications a title pattern given to
\* connect can match.
MainWindows == {"hMain", "hOther"}

VARIABLES
  app,          \* WindowManager._app: the connected process, or None
  window,       \* WindowManager._window: the UIA window reference, or None
  main_handle,  \* WindowManager._main_handle, or None
  visible,      \* environment: the handles IsWindowVisible reports visible
  mainState,    \* environment: for each window connect can track, its state
                \* and what it answers when asked (MainStates)
  executor,     \* the module global _executor: id of the current pool
  futs,         \* the futures submitted and not yet forgotten, by id
  queue,        \* the work queue of each pool, in submission order
  pc,           \* the caller's position: "idle", a call site, or "hung"
  rpc,          \* position inside _run_with_timeout: "none", "submit", "result", "return"
  cur,          \* the local `future` of the _run_with_timeout call in progress (0: none)
  ret,          \* what the last _run_with_timeout call returned or raised
  loc,          \* the running action's locals and its observable effects
  result,       \* what the last action returned or raised
  reply         \* what the tool function of the last action gave the transport

conn == <<app, window, main_handle>>
env == <<visible, mainState>>
exec == <<executor, futs, queue>>
caller == <<pc, rpc, cur, ret, loc, result, reply>>
vars == <<app, window, main_handle, visible, mainState, executor, futs, queue,
          pc, rpc, cur, ret, loc, result, reply>>

(* ------------------------- bounded executor --------------------------- *)

\* Pools ever created: the first one and one per replacement.
ExIds == 0..MaxTimeouts
\* Futures alive at once: the abandoned ones and the one being awaited.
FutIds == 1..(MaxTimeouts + 1)

\* What a returned _run_with_timeout call leaves with its caller (ret): exc
\* the exception class raised (None: it returned), timedOutMsg whether the
\* message contains "timed out"; and, as history, deadline whether the
\* deadline elapsed, sub the future the call submitted, src the future whose
\* outcome it handed back, stale whether that one had been abandoned, own the
\* outcome of the operation itself when it ended in time, replaced whether
\* the call bound _executor to a new pool.
\*
\* How an operation run by a worker ends, as future.result() then shows its
\* caller (nothing else reads it): it returns, or raises
\* an exception of the named type; RuntimeError_timed_out is a RuntimeError
\* the operation raises itself and whose message contains "timed out";
\* TimeoutError is the class the name FuturesTimeoutError is bound to.
Outcomes == {"ok", "Exception", "RuntimeError", "RuntimeError_timed_out", "TimeoutError"}

FreeFut == [st |-> "free", ex |-> 0, abandoned |-> FALSE]
NoRet == [exc |-> None, timedOutMsg |-> FALSE, deadline |-> FALSE,
          sub |-> 0, src |-> 0, stale |-> FALSE, own |-> None, replaced |-> FALSE]

\* The operations a pool's worker is executing.
Running(e) == {f \in FutIds : futs[f].st = "running" /\ futs[f].ex = e}

\* A worker thread of pool e is free to take the next work item.
WorkerFree(e) == Cardinality(Running(e)) < MaxWorkers

\* future.result(timeout) returns or re-raises only once the future is done.
FutureDoneNoWait(f) == futs[f].st # "free"
FutureDone(f) == futs[f].st = "done"

\* The future whose outcome future.result() hands back: the one just submitted.
ResultSourceAny == {f \in FutIds : futs[f].st # "free"}
ResultSource == {cur}

\* _executor = ThreadPoolExecutor(max_workers=1): a fresh pool on timeout.
KeepExecutor == executor
NewExecutor == executor + 1

\* The exception type and message the caller of _run_with_timeout sees for an
\* operation that ended with outcome o within the timeout.
ExcOf(o) == CASE o = "ok" -> None
              [] o = "Exception" -> "Exception"
              [] OTHER -> "RuntimeError"

\* future = _executor.submit(func, *args)
RunSubmit ==
  /\ rpc = "submit"
  /\ \E f \in FutIds :
       /\ futs[f].st = "free"
       /\ \A g \in FutIds : futs[g].st = "free" => f <= g
       /\ futs' = [futs EXCEPT ![f] = [st |-> "queued", ex |-> executor,
                                      abandoned |-> FALSE]]
       /\ queue' = [queue EXCEPT ![executor] = Append(@, f)]
       /\ cur' = f
  /\ rpc' = "result"
  /\ UNCHANGED <<conn, env, executor, pc, ret, loc, result, reply>>

\* The pool's worker thread takes the oldest queued work item.
WorkerStart(e) ==
  /\ queue[e] # <<>>
  /\ WorkerFree(e)
  /\ futs' = [futs EXCEPT ![Head(queue[e])].st = "running"]
  /\ queue' = [queue EXCEPT ![e] = Tail(@)]
  /\ UNCHANGED <<conn, env, executor, caller>>

\* The operation ends and its future is set; an operation blocked by a modal
\* dialog simply never takes this step.
WorkerFinish(f) ==
  /\ futs[f].st = "running"
  /\ futs' = [futs EXCEPT ![f].st = "done"]
  /\ UNCHANGED <<conn, env, executor, queue, caller>>

\* return future.result(timeout=timeout), the future done in time with
\* outcome o.  An operation that raised FuturesTimeoutError itself is caught
\* by the except clause like an elapsed deadline.
RunResult(o) ==
  /\ rpc = "result"
  /\ \E f \in ResultSource :
       /\ f # 0
       /\ FutureDone(f)
       /\ IF o = "TimeoutError"
            THEN /\ executor < MaxTimeouts
                 /\ executor' = NewExecutor
                 /\ ret' = [exc |-> "RuntimeError", timedOutMsg |-> TRUE,
                            deadline |-> FALSE, sub |-> cur, src |-> f,
                            stale |-> futs[f].abandoned, own |-> o,
                            replaced |-> NewExecutor # executor]
            ELSE /\ executor' = executor
                 /\ ret' = [exc |-> ExcOf(o),
                            timedOutMsg |-> (o = "RuntimeError_timed_out"),
                            deadline |-> FALSE, sub |-> cur, src |-> f,
                            stale |-> futs[f].abandoned, own |-> o,
                            replaced |-> FALSE]
       /\ futs' = IF futs[f].st = "done" /\ ~futs[f].abandoned
                    THEN [futs EXCEPT ![f] = FreeFut] ELSE futs
  /\ rpc' = "return"
  /\ cur' = 0
  /\ UNCHANGED <<conn, env, queue, pc, loc, result, reply>>

\* except FuturesTimeoutError: the deadline elapsed with the future not done.
\* The pool is replaced and RuntimeError("Operation timed out ...") raised.
RunTimeout ==
  /\ rpc = "result"
  /\ cur # 0
  /\ ~FutureDone(cur)
  /\ executor < MaxTimeouts
  /\ futs' = [futs EXCEPT ![cur].abandoned = TRUE]
  /\ executor' = NewExecutor
  /\ ret' = [exc |-> "RuntimeError", timedOutMsg |-> TRUE, deadline |-> TRUE,
             sub |-> cur, src |-> 0, stale |-> FALSE, own |-> None,
             replaced |-> NewExecutor # executor]
  /\ rpc' = "return"
  /\ cur' = 0
  /\ UNCHANGED <<conn, env, queue, pc, loc, result, reply>>

\* except RuntimeError as exc: if "timed out" in str(exc)
IsTimedOut(r) == r.exc = "RuntimeError" /\ r.timedOutMsg

(* ------------------------- element model ------------------------------ *)

Absent == "Absent"

\* _CLASS_TO_CONTROL_TYPE.get(cls, cls): unknown classes pass through.
ClassToControlType(cls) ==
  CASE cls = "Button" -> "Button"
    [] cls = "Static" -> "Text"
    [] cls = "Edit" -> "Edit"
    [] cls = "#32770" -> "Dialog"
    [] cls = "ComboBox" -> "ComboBox"
    [] cls = "ListBox" -> "List"
    [] cls = "SysListView32" -> "List"
    [] cls = "SysTreeView32" -> "Tree"
    [] cls = "msctls_progress32" -> "ProgressBar"
    [] cls = "SysTabControl32" -> "Tab"
    [] OTHER -> cls

\* The accessibility tree of the main window as the UIA provider reports it:
\* node 1 is the window; kids[n] are n's children() in order.  The grid's
\* first child stands for the top row of a Japanese DataGridView, its name
\* written in Latin letters ("Toppu" for the katakana word).
AppTree ==
  [kids |-> << <<2, 3, 6, 7, 8, 10, 11>>, <<>>, <<4>>, <<5>>, <<>>, <<>>, <<>>, <<9>>, <<>>,
               <<>>, <<12, 13, 14, 15>>, <<>>, <<>>, <<>>, <<16>>, <<>> >>,
   info |-> << [name |-> "App", control_type |-> "Window", automation_id |-> ""],
               [name |-> "System", control_type |-> "MenuBar", automation_id |-> ""],
               [name |-> "Application", control_type |-> "MenuBar", automation_id |-> "menuBar"],
               [name |-> "File", control_type |-> "MenuItem", automation_id |-> ""],
               [name |-> "Open", control_type |-> "MenuItem", automation_id |-> ""],
               [name |-> "OK", control_type |-> "Button", automation_id |-> "btnOk"],
               [name |-> "Opt", control_type |-> "CheckBox", automation_id |-> "chk"],
               [name |-> "Combo", control_type |-> "ComboBox", automation_id |-> "cmb"],
               [name |-> "A", control_type |-> "ListItem", automation_id |-> ""],
               [name |-> "Name", control_type |-> "Edit", automation_id |-> "txtName"],
               [name |-> "Grid", control_type |-> "Table", automation_id |-> "grid"],
               [name |-> "Toppu no gyou", control_type |-> "Custom", automation_id |-> ""],
               [name |-> "Header", control_type |-> "Custom", automation_id |-> ""],
               [name |-> "Row 0", control_type |-> "Custom", automation_id |-> ""],
               [name |-> "Row 1", control_type |-> "DataItem", automation_id |-> ""],
               [name |-> "Cell", control_type |-> "Edit", automation_id |-> ""] >>]

\* The child windows of a dialog, with their window classes and texts:
\* node 1 is the dialog itself.
DlgWindows(h) ==
  [kids |-> << <<2, 3>>, <<>>, <<>> >>,
   cls |-> <<"#32770", "Static", "Button">>,
   text |-> <<WindowText[h], "Sure?", "Yes">>]

\* _Win32ElementInfo.__init__: name from the window text, control type from
\* the window class, no automation id.
Win32ElementInfo(h, n) ==
  [name |-> DlgWindows(h).text[n],
   control_type |-> ClassToControlType(DlgWindows(h).cls[n]),
   automation_id |-> ""]

\* An element reference: a UIA wrapper ("rich") or a _Win32ElementWrapper
\* ("raw"), of window h, node n of its tree.
NoElem == [kind |-> None, h |-> None, n |-> 0]
Rich(h, n) == [kind |-> "rich", h |-> h, n |-> n]
Raw(h, n) == [kind |-> "raw", h |-> h, n |-> n]

\* element.element_info
ElementInfo(el) ==
  IF el.kind = "raw" THEN Win32ElementInfo(el.h, el.n) ELSE AppTree.info[el.n]

\* element.children(), in order
Children(el) ==
  IF el.kind = "raw"
    THEN [i \in DOMAIN DlgWindows(el.h).kids[el.n] |-> Raw(el.h, DlgWindows(el.h).kids[el.n][i])]
    ELSE [i \in DOMAIN AppTree.kids[el.n] |-> Rich(el.h, AppTree.kids[el.n][i])]

(* -------------------------- dialog detector --------------------------- *)

\* The test of _enum_callback for one window.
IsDialogCandidate(h) ==
  /\ OwnerPid[h] = app
  /\ h # main_handle
  /\ h \in visible

\* EnumWindows stops at the first window for which the callback returns False.
FirstDialogIn(order) ==
  LET hits == {i \in DOMAIN order : IsDialogCandidate(order[i])}
  IN IF hits = {} THEN None
     ELSE order[CHOOSE i \in hits : \A j \in hits : i <= j]

\* WindowManager._find_dialog: the handle of the dialog, or None.
FindDialog ==
  IF app = None \/ main_handle = None THEN None ELSE FirstDialogIn(EnumOrder)

(* -------------------------- target resolver --------------------------- *)

Fail(kind, msg) == [err |-> kind, msg |-> msg, el |-> NoElem]
Found(el) == [err |-> None, msg |-> "", el |-> el]

\* What a window that connect can track is and what it answers to exists()
\* and to the minimized query (wrapper_object().is_minimized()):
\*   "normal"     it exists, is not minimized, and the query says so;
\*   "minimized"  it exists, is minimized, and the query says so;
\*   "gone"       exists() is false, or raises an exception whose text lacks
\*                "no longer exists";
\*   "stale"      exists() raises an exception of its own class whose text
\*                holds "no longer exists";
\*   "faulty"     it exists and the minimized query raises a RuntimeError;
\*   "opaque"     it exists, is not minimized, and the minimized query
\*                raises an exception that is not a RuntimeError;
\*   "masked"     it exists, is minimized, and the minimized query raises an
\*                exception that is not a RuntimeError.
MainStates == {"normal", "minimized", "gone", "stale", "faulty", "opaque", "masked"}

\* The state of the window w refers to, when it refers to one.
MainStateOf(w) == IF w \in MainWindows THEN mainState[w] ELSE Absent

\* The checks of the tracked window, made when no dialog is detected: the
\* exception of exists() that names "no longer exists" and the RuntimeError
\* of the minimized query go out as they are; any other exception of the
\* minimized query is passed over and the window is returned, minimized or
\* not.
TrackedWindow ==
  CASE mainState[window] = "gone" ->
         Fail("RuntimeError", "Connected window no longer exists.")
    [] mainState[window] = "stale" -> Fail("LookupError", "handle no longer exists")
    [] mainState[window] = "minimized" -> Fail("RuntimeError", "Window is minimized.")
    [] mainState[window] = "faulty" -> Fail("RuntimeError", "boom")
    [] mainState[window] \in {"opaque", "masked"} -> Found(Rich(window, 1))
    [] OTHER -> Found(Rich(window, 1))

\* WindowManager.window with the dialog check left out or made last.
WindowPropNoDialog ==
  IF app = None \/ window = None
    THEN Fail("RuntimeError", "No app connected.")
    ELSE TrackedWindow
\* WindowManager.window with the checks of the tracked window made before
\* the dialog check.
WindowPropMainFirst ==
  IF app = None \/ window = None
    THEN Fail("RuntimeError", "No app connected.")
    ELSE IF TrackedWindow.err # None
           THEN TrackedWindow
           ELSE IF FindDialog # None
                  THEN Found(Raw(FindDialog, 1))
                  ELSE TrackedWindow
\* WindowManager.window
WindowProp ==
  IF app = None \/ window = None
    THEN Fail("RuntimeError", "No app connected.")
    ELSE IF FindDialog # None
           THEN Found(Raw(FindDialog, 1))
           ELSE TrackedWindow

(* ------------------------- selector resolver -------------------------- *)

\* A selector: each of title, control_type, auto_id is Absent (no such key),
\* None (the key with a null value) or a string; parent is <<>> or <<selector>>.
Sel(t, c, a) == [title |-> t, control_type |-> c, auto_id |-> a, parent |-> <<>>]
Under(s, p) == [s EXCEPT !.parent = <<p>>]

\* any(k in selector for k in ("title", "control_type", "auto_id"))
HasCriteria(s) == s.title # Absent \/ s.control_type # Absent \/ s.auto_id # Absent

\* selector.get(k): None for an absent key.
Get(v) == IF v = Absent THEN None ELSE v

\* The if/elif/else chain of _search for one child.
Matches(info, s) ==
  /\ ~(Get(s.title) # None /\ info.name # Get(s.title))
  /\ ~(Get(s.control_type) # None /\ info.control_type # Get(s.control_type))
  /\ ~(Get(s.auto_id) # None /\ info.automation_id # Get(s.auto_id))

RECURSIVE Search(_, _), SearchFrom(_, _, _), SearchSubtreeFirst(_, _, _)
\* _search that tests the element it starts from before its children.
SearchRootToo(el, s) ==
  IF Matches(ElementInfo(el), s) THEN el ELSE SearchFrom(el, s, 1)
\* _search(element): the children in order, each before its own subtree.
Search(el, s) == SearchFrom(el, s, 1)
SearchSubtreeFirst(el, s, i) ==
  IF i > Len(Children(el)) THEN NoElem
  ELSE LET child == Children(el)[i]
           r == Search(child, s)
       IN IF r # NoElem THEN r
          ELSE IF Matches(ElementInfo(child), s) THEN child
          ELSE SearchFrom(el, s, i + 1)
SearchFrom(el, s, i) ==
  IF i > Len(Children(el)) THEN NoElem
  ELSE LET child == Children(el)[i]
           r == Search(child, s)
       IN IF Matches(ElementInfo(child), s) THEN child
          ELSE IF r # NoElem THEN r ELSE SearchFrom(el, s, i + 1)

RECURSIVE FindElement(_)
\* find_element that searches from the current target whatever the parent.
FindElementFromTarget(s) ==
  IF ~HasCriteria(s) THEN Fail("LookupError", "Selector must contain at least one of")
  ELSE LET from == WindowProp
       IN IF from.err # None THEN from
          ELSE LET m == Search(from.el, s)
               IN IF m = NoElem THEN Fail("LookupError", "Element not found")
                  ELSE Found(m)
\* WindowManager.find_element
FindElement(s) ==
  IF ~HasCriteria(s) THEN Fail("LookupError", "Selector must contain at least one of")
  ELSE LET from == IF s.parent # <<>> THEN FindElement(s.parent[1]) ELSE WindowProp
       IN IF from.err # None THEN from
          ELSE LET m == Search(from.el, s)
               IN IF m = NoElem THEN Fail("LookupError", "Element not found")
                  ELSE Found(m)

\* The selectors the actions are tried with.
Selectors ==
  { Sel("OK", "Button", Absent),
    Sel(Absent, Absent, "cmb"),
    Sel("Yes", Absent, Absent),
    Sel(Absent, Absent, Absent),
    Under(Sel("A", Absent, Absent), Sel(Absent, "ComboBox", Absent)) }

(* ------------------------------ actions ------------------------------- *)

\* What a call made directly on the caller's thread into the target's UI
\* thread does: it returns, raises, or blocks for ever behind a modal dialog.
DirectOutcomes == {"ok", "raise", "block"}

NoResult == [act |-> None, kind |-> None, msg |-> "", dlg |-> None]
Res(act, kind, msg) == [act |-> act, kind |-> kind, msg |-> msg, dlg |-> None]

\* The locals of an action and what it did: el the resolved element, win the
\* target window, segs the menu path, i the segment index; tried the UI
\* calls made, in order (click and the directly called actions); timedOut
\* the calls whose deadline elapsed, each with the segment index; invoked
\* the segments whose menu item was invoked or expanded; esc whether the
\* escape key press was sent; seen what the dialog detector reported when it
\* was asked again after a timeout (Absent: not asked); dlg and tracked
\* what the dialog detector reported and which window was tracked when the
\* window property was read on its own or by send_keys, save_screenshot,
\* connect or switch_window (Absent: not recorded), main the state
\* the main window was in then; sel the selector find_element was called
\* with on its own; args the other arguments of the call; ended the
\* pattern calls of click that have returned, in order, each with how it
\* ended.
NewLoc(act) == [act |-> act, el |-> NoElem, win |-> NoElem, segs |-> <<>>, i |-> 0,
                tried |-> <<>>, timedOut |-> {}, invoked |-> {}, esc |-> FALSE,
                seen |-> Absent, dlg |-> Absent, tracked |-> Absent, main |-> Absent,
                sel |-> Sel(Absent, Absent, Absent), args |-> <<>>, closed |-> FALSE,
                ended |-> <<>>]

\* The locals of an action that begins now, with the session's history:
\* closed tells that close_window has returned and no connect has succeeded
\* since.
Begun(act) ==
  [NewLoc(act) EXCEPT !.closed = loc.closed \/ (result.act = "close_window" /\ pc = "idle")]

\* The record of one returned _run_with_timeout call in the action's history.
Noted(call) ==
  [loc EXCEPT !.timedOut = IF ret.deadline THEN @ \cup {[i |-> loc.i, call |-> call]} ELSE @]

\* The same for a pattern call of click, with how the call ended as click
\* sees it: it returned, raised "timed out", or failed otherwise.
NotedEnd(call) ==
  [Noted(call) EXCEPT !.ended = Append(@, [call |-> call,
                                           how |-> CASE ret.exc = None -> "ok"
                                                     [] IsTimedOut(ret) -> "timed out"
                                                     [] OTHER -> "failed"])]

(* ------------------------------ tools --------------------------------- *)

\* The tool function of src/server.py that calls each WindowManager method
\* (None: the method is not called by a tool of its own).
ToolOf(act) ==
  CASE act = "connect" -> "connect_app"
    [] act = "click" -> "click_element"
    [] act \in {"get_ui_tree", "set_text", "get_text", "select_item",
                "select_grid_row", "select_menu", "close_window", "send_keys",
                "save_screenshot", "list_windows", "switch_window"} -> act
    [] OTHER -> None

\* The classes named by the except clauses of each tool function, in order.
ExceptClausesNamedOnly(tool) ==
  CASE tool = "connect_app" -> <<"LookupError">>
    [] tool \in {"click_element", "set_text", "get_text", "select_item",
                 "select_grid_row"} -> <<"JSONDecodeError", "LookupError", "RuntimeError">>
    [] tool = "switch_window" -> <<"ValueError", "IndexError", "LookupError", "RuntimeError">>
    [] OTHER -> <<"RuntimeError">>
ExceptClauses(tool) == Append(ExceptClausesNamedOnly(tool), "Exception")

\* issubclass(kind, cls) for the exception classes that occur.
IsSubclass(kind, cls) ==
  \/ cls = "Exception"
  \/ kind = cls
  \/ kind = "JSONDecodeError" /\ cls = "ValueError"
  \/ kind = "IndexError" /\ cls = "LookupError"

\* What a tool function gives the transport when the method it calls ends
\* with r: the method's string, f"Error: {e}" from the first except clause
\* that catches the exception, or the exception itself when none does.
NoReply == [tool |-> None, raised |-> FALSE, error |-> FALSE, text |-> None]
ToolReply(r) ==
  LET tool == ToolOf(r.act)
      clauses == ExceptClauses(tool)
  IN CASE tool = None -> NoReply
       [] tool # None /\ r.kind = "ok" ->
            [tool |-> tool, raised |-> FALSE, error |-> FALSE, text |-> r.msg]
       [] tool # None /\ r.kind # "ok"
            /\ (\E i \in DOMAIN clauses : IsSubclass(r.kind, clauses[i])) ->
            [tool |-> tool, raised |-> FALSE, error |-> TRUE, text |-> r.msg]
       [] OTHER ->
            [tool |-> tool, raised |-> TRUE, error |-> TRUE, text |-> None]

\* The action returns (or raises) r to its caller, the tool function, which
\* returns to the transport.
Return(r) ==
  /\ pc' = "idle"
  /\ rpc' = "none"
  /\ result' = r
  /\ reply' = ToolReply(r)

\* The action goes on to the _run_with_timeout call at `site`.
Goto(site) ==
  /\ pc' = site
  /\ rpc' = "submit"
  /\ result' = NoResult
  /\ reply' = NoReply

\* The caller never comes back from a direct call that blocks.
Hang ==
  /\ pc' = "hung"
  /\ rpc' = "none"
  /\ result' = NoResult
  /\ reply' = NoReply

\* The action is in time.sleep(0.3) at `site`; it goes on when the sleep ends.
Sleep(site) ==
  /\ pc' = site
  /\ rpc' = "none"
  /\ result' = NoResult
  /\ reply' = NoReply

\* dialog.element_info.name or "(untitled)"
DialogTitle(h) == IF WindowText[h] = "" THEN "(untitled)" ELSE WindowText[h]

\* connect that leaves the state as it was when the attempt fails.
ConnectKeepsOnFailure(ok, h) ==
  /\ pc = "idle"
  /\ ok => mainState[h] # "gone"
  /\ IF ok
       THEN /\ app' = OwnerPid[h]
            /\ window' = h
            /\ main_handle' = h
            /\ Return(Res("connect", "ok", WindowText[h]))
       ELSE /\ UNCHANGED conn
            /\ Return(Res("connect", "LookupError", "Could not connect to app"))
  /\ loc' = [(IF ok THEN NewLoc("connect") ELSE Begun("connect"))
                EXCEPT !.tracked = window, !.win = Rich(h, 1)]
  /\ UNCHANGED <<env, exec, cur, ret>>

\* connect whose failure after Application.connect keeps the process.
ConnectLeavesProcess(ok, h) ==
  /\ pc = "idle"
  /\ ok => mainState[h] # "gone"
  /\ IF ok
       THEN /\ app' = OwnerPid[h]
            /\ window' = h
            /\ main_handle' = h
            /\ Return(Res("connect", "ok", WindowText[h]))
       ELSE /\ app' = OwnerPid[h]
            /\ UNCHANGED <<window, main_handle>>
            /\ Return(Res("connect", "LookupError", "Could not connect to app"))
  /\ loc' = [(IF ok THEN NewLoc("connect") ELSE Begun("connect"))
                EXCEPT !.tracked = window, !.win = Rich(h, 1)]
  /\ UNCHANGED <<env, exec, cur, ret>>

\* WindowManager.connect with a title pattern that matches the application
\* whose top window is h: Application.connect, top_window, the handle lookup
\* and window_text succeed and the three fields are those of h, whatever
\* they held before, or any step raises and the state is cleared.  Whether
\* it can succeed depends on h alone (a window that has gone is not found),
\* never on the window tracked before.
Connect(ok, h) ==
  /\ pc = "idle"
  /\ ok => mainState[h] # "gone"
  /\ IF ok
       THEN /\ app' = OwnerPid[h]
            /\ window' = h
            /\ main_handle' = h
            /\ Return(Res("connect", "ok", WindowText[h]))
       ELSE /\ app' = None
            /\ window' = None
            /\ main_handle' = None
            /\ Return(Res("connect", "LookupError", "Could not connect to app"))
  /\ loc' = [(IF ok THEN NewLoc("connect") ELSE Begun("connect"))
                EXCEPT !.tracked = window, !.win = Rich(h, 1)]
  /\ UNCHANGED <<env, exec, cur, ret>>

\* A read of the WindowManager.window property by an action: the element it
\* returns or the RuntimeError it raises.
GetWindow ==
  /\ pc = "idle"
  /\ LET w == WindowProp
     IN /\ Return(Res("window", IF w.err = None THEN "ok" ELSE w.err, w.msg))
        /\ loc' = [Begun("window") EXCEPT !.win = w.el, !.dlg = FindDialog,
                                           !.tracked = window, !.main = MainStateOf(window),
                                           !.args = <<visible>>]
  /\ ret' = NoRet
  /\ UNCHANGED <<conn, env, exec, cur>>

\* The selectors find_element is tried with on its own: every combination of
\* a key that is absent, null, or set to a value some element has, alone or
\* under a parent selector that resolves, matches nothing or has no criteria.
ParentSelectors ==
  { Sel("Application", Absent, Absent),
    Sel("Nope", Absent, Absent),
    Sel(Absent, Absent, Absent) }
FlatSelectors ==
  { Sel(t, c, a) : t \in {Absent, None, "File"},
                   c \in {Absent, None, "MenuItem", "Button"},
                   a \in {Absent, None, "btnOk"} }
\* Selectors that the search root itself satisfies: the main window by its
\* control type, the menu bar searched for under itself.
RootSelectors ==
  { Sel(Absent, "Window", Absent),
    Under(Sel("Application", Absent, Absent), Sel("Application", Absent, Absent)) }
AllSelectors ==
  FlatSelectors \cup {Under(s, p) : s \in FlatSelectors, p \in ParentSelectors}
                \cup RootSelectors

\* A call of WindowManager.find_element by an action: the element it returns
\* or the error it raises, with the element it searched from, the dialog
\* detected and the window tracked at the time.
Resolve(sel) ==
  /\ pc = "idle"
  /\ LET r == FindElement(sel)
         from == IF ~HasCriteria(sel) THEN Fail(None, "")
                 ELSE IF sel.parent # <<>> THEN FindElement(sel.parent[1])
                 ELSE WindowProp
     IN /\ Return(Res("find_element", IF r.err = None THEN "ok" ELSE r.err, r.msg))
        /\ loc' = [Begun("find_element") EXCEPT !.el = r.el, !.win = from.el,
                                                 !.sel = sel, !.dlg = FindDialog,
                                                 !.tracked = window]
  /\ ret' = NoRet
  /\ UNCHANGED <<conn, env, exec, cur>>

\* WindowManager._click_timeout_message, for the dialog detector's report d.
ClickTimeoutMessageNoDialog(d) ==
  [act |-> "click", kind |-> "ok", msg |-> "timed out but no dialog was detected", dlg |-> None]
ClickTimeoutMessage(d) ==
  IF d # None
    THEN [act |-> "click", kind |-> "ok", msg |-> "A dialog appeared", dlg |-> DialogTitle(d)]
    ELSE [act |-> "click", kind |-> "ok", msg |-> "timed out but no dialog was detected", dlg |-> None]

CannotClick == Res("click", "RuntimeError", "Cannot click")

\* WindowManager.click up to the first pattern call: resolve the element and
\* submit element.invoke.
ClickBegin(sel) ==
  /\ pc = "idle"
  /\ LET r == FindElement(sel)
     IN IF r.err # None
          THEN /\ Return(Res("click", r.err, r.msg))
               /\ loc' = Begun("click")
          ELSE /\ Goto("click_invoke")
               /\ loc' = [Begun("click") EXCEPT !.el = r.el, !.tried = <<"invoke">>]
  /\ ret' = NoRet
  /\ UNCHANGED <<conn, env, exec, cur>>

\* The handlers of a timed-out pattern call of click: the timeout message,
\* with the dialog detector asked again now.
ClickTimedOut(site) ==
  /\ Return(ClickTimeoutMessage(FindDialog))
  /\ loc' = [NotedEnd(site) EXCEPT !.seen = FindDialog]

\* click that goes on to TogglePattern after a timed-out invoke as well.
ClickInvokeRetPastTimeout ==
  /\ pc = "click_invoke" /\ rpc = "return"
  /\ CASE ret.exc = None ->
            /\ Return(Res("click", "ok", "Clicked"))
            /\ loc' = NotedEnd("invoke")
       [] OTHER ->
            IF loc.el.kind = "raw"
              THEN /\ Return(CannotClick)
                   /\ loc' = NotedEnd("invoke")
              ELSE /\ Goto("click_toggle")
                   /\ loc' = [NotedEnd("invoke") EXCEPT !.tried = Append(@, "toggle")]
  /\ ret' = NoRet
  /\ UNCHANGED <<conn, env, exec, cur>>

\* click after _run_with_timeout(element.invoke): success, the timeout
\* message, or on to TogglePattern.  A raw element has no toggle and no
\* get_expand_state attribute: both later attempts fail at once.
ClickInvokeRet ==
  /\ pc = "click_invoke" /\ rpc = "return"
  /\ CASE ret.exc = None ->
            /\ Return(Res("click", "ok", "Clicked"))
            /\ loc' = NotedEnd("invoke")
       [] IsTimedOut(ret) -> ClickTimedOut("invoke")
       [] OTHER ->
            IF loc.el.kind = "raw"
              THEN /\ Return(CannotClick)
                   /\ loc' = NotedEnd("invoke")
              ELSE /\ Goto("click_toggle")
                   /\ loc' = [NotedEnd("invoke") EXCEPT !.tried = Append(@, "toggle")]
  /\ ret' = NoRet
  /\ UNCHANGED <<conn, env, exec, cur>>

\* click after _run_with_timeout(element.toggle): success, the timeout
\* message, or on to ExpandCollapsePattern, chosen by get_expand_state()
\* (which may raise: then no state, and click fails); what it gave is kept
\* in args.
ClickToggleRet ==
  /\ pc = "click_toggle" /\ rpc = "return"
  /\ CASE ret.exc = None ->
            /\ Return(Res("click", "ok", "Clicked"))
            /\ loc' = NotedEnd("toggle")
       [] IsTimedOut(ret) -> ClickTimedOut("toggle")
       [] OTHER ->
            \E state \in {"raises", "collapsed", "expanded"} :
              CASE state = "raises" ->
                     /\ Return(CannotClick)
                     /\ loc' = [NotedEnd("toggle") EXCEPT !.args = <<state>>]
                [] state = "collapsed" ->
                     /\ Goto("click_expand")
                     /\ loc' = [NotedEnd("toggle") EXCEPT !.tried = Append(@, "expand"),
                                                           !.args = <<state>>]
                [] OTHER ->
                     /\ Goto("click_collapse")
                     /\ loc' = [NotedEnd("toggle") EXCEPT !.tried = Append(@, "collapse"),
                                                           !.args = <<state>>]
  /\ ret' = NoRet
  /\ UNCHANGED <<conn, env, exec, cur>>

\* click after _run_with_timeout(element.expand) or (element.collapse).
ClickExpandCollapseRet ==
  /\ pc \in {"click_expand", "click_collapse"} /\ rpc = "return"
  /\ LET site == IF pc = "click_expand" THEN "expand" ELSE "collapse"
     IN CASE ret.exc = None ->
               /\ Return(Res("click", "ok", "Clicked"))
               /\ loc' = NotedEnd(site)
          [] IsTimedOut(ret) -> ClickTimedOut(site)
          [] OTHER ->
               /\ Return(CannotClick)
               /\ loc' = NotedEnd(site)
  /\ ret' = NoRet
  /\ UNCHANGED <<conn, env, exec, cur>>

\* The segment names menu paths are made of; "Nope" names no menu item.
SegNames == {"File", "Nope"}
\* [s.strip() for s in menu_path.split("->")]: the segments of a menu path.
\* select_menu stops at the first segment that names no item and never reads
\* the segments after it, so the paths tried name one in the last place only:
\* in the menu bar, in the first round of the loop and in a later round.  The
\* paths whose segments all name an item are the shortest and the longest.
Paths ==
  {p \in UNION {[1..n -> SegNames] : n \in 1..MaxSegs} :
     /\ \A i \in 1..(Len(p) - 1) : p[i] = "File"
     /\ \/ p[Len(p)] = "File" /\ Len(p) \in {1, MaxSegs}
        \/ p \in {<<"Nope">>, <<"File", "Nope">>, <<"File", "File", "Nope">>}}

RECURSIVE Descendants(_), DescendantsFrom(_, _)
\* element.descendants(): the whole subtree below the element, in pre-order.
Descendants(el) == DescendantsFrom(el, 1)
DescendantsFrom(el, i) ==
  IF i > Len(Children(el)) THEN <<>>
  ELSE <<Children(el)[i]>> \o Descendants(Children(el)[i]) \o DescendantsFrom(el, i + 1)

\* The element a for loop with a break stops at: the first of the elements
\* that passed the loop's test, or NoElem (None) when none did.
FirstOf(es) == IF es = <<>> THEN NoElem ELSE es[1]

\* The menu bar of the window: the first MenuBar child that is not the
\* system menu bar (named "System", or its Japanese name).
IsAppMenuBar(c) ==
  ElementInfo(c).control_type = "MenuBar" /\ ElementInfo(c).name # "System"
MenuBarOf(win) == FirstOf(SelectSeq(Children(win), IsAppMenuBar))

\* The item of the menu bar named like the first segment.
MenuBarItem(bar, name) ==
  LET Named(c) == ElementInfo(c).name = name IN FirstOf(SelectSeq(Children(bar), Named))

\* The first descendant of the window that is a MenuItem named like the segment.
MenuItemOf(win, name) ==
  LET IsItem(d) == ElementInfo(d).control_type = "MenuItem" /\ ElementInfo(d).name = name
  IN FirstOf(SelectSeq(Descendants(win), IsItem))

\* The result of select_menu when the last segment's invoke timed out, for
\* the dialog detector's report d.
MenuTimeoutMessage(d) ==
  IF d # None
    THEN [act |-> "select_menu", kind |-> "ok", msg |-> "A dialog appeared", dlg |-> DialogTitle(d)]
    ELSE [act |-> "select_menu", kind |-> "ok",
          msg |-> "timed out but no dialog was detected", dlg |-> None]

\* if not found: win.type_keys("{ESC}") is attempted, whatever comes of it.
LeaveMenusOpen(l) == l
CloseOpenMenus(l) == [l EXCEPT !.esc = TRUE, !.tried = Append(@, "type_keys")]

\* The segment loop goes on to segment i (1-based; the loop starts at 2),
\* with l the locals so far: past the last segment select_menu returns; else
\* the iteration starts with time.sleep(0.3).
MenuNext(i, l) ==
  IF i > Len(l.segs)
    THEN /\ Return(Res("select_menu", "ok", "Selected menu"))
         /\ loc' = l
    ELSE /\ Sleep("menu_sleep")
         /\ loc' = [l EXCEPT !.i = i]

\* The body of the segment loop after the sleep, for segment loc.i: a
\* segment with no menu item sends escape and raises LookupError; else the
\* item's invoke is submitted.
MenuSegment ==
  /\ pc = "menu_sleep"
  /\ LET i == loc.i
         d == MenuItemOf(loc.win, loc.segs[i])
     IN IF d = NoElem
          THEN /\ loc' = CloseOpenMenus(loc)
               /\ \E o \in DirectOutcomes :
                    IF o = "block" THEN Hang
                    ELSE Return(Res("select_menu", "LookupError", "Menu item not found"))
          ELSE /\ Goto("menu_invoke")
               /\ loc' = [loc EXCEPT !.el = d, !.invoked = @ \cup {i}]
  /\ ret' = NoRet
  /\ UNCHANGED <<conn, env, exec, cur>>

\* WindowManager.select_menu up to opening the first segment: the target
\* window, its menu bar, the first segment's item, and current.expand submitted.
MenuBegin(path) ==
  /\ pc = "idle"
  /\ LET w == WindowProp
         bar == MenuBarOf(w.el)
         current == MenuBarItem(bar, path[1])
         l == [Begun("select_menu") EXCEPT !.segs = path]
     IN CASE w.err # None ->
               /\ Return(Res("select_menu", w.err, w.msg))
               /\ loc' = l
          [] w.err = None /\ bar = NoElem ->
               /\ Return(Res("select_menu", "RuntimeError", "No menu bar found"))
               /\ loc' = l
          [] w.err = None /\ bar # NoElem /\ current = NoElem ->
               /\ Return(Res("select_menu", "LookupError", "not found in menu bar"))
               /\ loc' = l
          [] OTHER ->
               /\ Goto("menu_open_expand")
               /\ loc' = [l EXCEPT !.win = w.el, !.el = current, !.i = 1,
                                   !.invoked = {1}]
  /\ ret' = NoRet
  /\ UNCHANGED <<conn, env, exec, cur>>

\* select_menu after _run_with_timeout(current.expand): any exception, a
\* timeout included, leads to the invoke of the same item.
MenuOpenExpandRet ==
  /\ pc = "menu_open_expand" /\ rpc = "return"
  /\ IF ret.exc = None
       THEN MenuNext(2, Noted("expand"))
       ELSE /\ Goto("menu_open_invoke")
            /\ loc' = Noted("expand")
  /\ ret' = NoRet
  /\ UNCHANGED <<conn, env, exec, cur>>

\* select_menu after _run_with_timeout(current.invoke): a RuntimeError with
\* "timed out" in its message is passed over; any other exception is raised
\* as "Cannot open menu".
MenuOpenInvokeRet ==
  /\ pc = "menu_open_invoke" /\ rpc = "return"
  /\ IF ret.exc = None \/ IsTimedOut(ret)
       THEN MenuNext(2, Noted("invoke"))
       ELSE /\ Return(Res("select_menu", "RuntimeError", "Cannot open menu"))
            /\ loc' = Noted("invoke")
  /\ ret' = NoRet
  /\ UNCHANGED <<conn, env, exec, cur>>

\* select_menu after _run_with_timeout(d.invoke) for segment loc.i.
MenuInvokeRet ==
  /\ pc = "menu_invoke" /\ rpc = "return"
  /\ CASE ret.exc = None -> MenuNext(loc.i + 1, Noted("invoke"))
       [] IsTimedOut(ret) /\ loc.i = Len(loc.segs) ->
            /\ Return(MenuTimeoutMessage(FindDialog))
            /\ loc' = [Noted("invoke") EXCEPT !.seen = FindDialog]
       [] IsTimedOut(ret) /\ loc.i # Len(loc.segs) ->
            MenuNext(loc.i + 1, Noted("invoke"))
       [] OTHER ->
            /\ Goto("menu_expand")
            /\ loc' = Noted("invoke")
  /\ ret' = NoRet
  /\ UNCHANGED <<conn, env, exec, cur>>

\* select_menu after the fallback _run_with_timeout(d.expand): any
\* exception, a timeout included, is raised as "Cannot click menu".
MenuExpandRet ==
  /\ pc = "menu_expand" /\ rpc = "return"
  /\ IF ret.exc = None
       THEN MenuNext(loc.i + 1, Noted("expand"))
       ELSE /\ Return(Res("select_menu", "RuntimeError", "Cannot click menu"))
            /\ loc' = Noted("expand")
  /\ ret' = NoRet
  /\ UNCHANGED <<conn, env, exec, cur>>

\* The item names select_item is tried with; "Zed" names no item.
ItemNames == {"A", "Zed"}

\* select_item from element.descendants() on, with l the locals so far:
\* descendants(), called outside any try, returns the subtree or raises;
\* Select and collapse are called on the caller's thread, and each returns,
\* raises or blocks (DirectOutcomes).
SelectItemRest(l, item_name) ==
  LET Named(d) == ElementInfo(d).name = item_name
      item == FirstOf(SelectSeq(Descendants(l.el), Named))
      \* element.collapse() in its try/except, then the action ends with res
      CollapseThen(done, res) ==
        /\ loc' = [l EXCEPT !.tried = done \o <<"collapse">>]
        /\ \E co \in DirectOutcomes : IF co = "block" THEN Hang ELSE Return(res)
  IN \E do \in {"ok", "raise"} :
       CASE do = "raise" ->
              /\ Return(Res("select_item", "Exception", "descendants"))
              /\ loc' = [l EXCEPT !.tried = <<"expand", "descendants">>]
         [] do = "ok" /\ item = NoElem ->
              CollapseThen(<<"expand", "descendants">>,
                           Res("select_item", "LookupError", "Item not found"))
         [] OTHER ->
              \E so \in DirectOutcomes :
                CASE so = "block" ->
                       /\ Hang
                       /\ loc' = [l EXCEPT !.tried = <<"expand", "descendants", "select">>]
                  [] so = "raise" ->
                       CollapseThen(<<"expand", "descendants", "select">>,
                                    Res("select_item", "RuntimeError", "Cannot select"))
                  [] OTHER ->
                       CollapseThen(<<"expand", "descendants", "select">>,
                                    Res("select_item", "ok", "Selected"))

\* WindowManager.select_item up to the sleep.  expand is called on the
\* caller's thread and returns, raises or blocks; when it returns the action
\* sleeps (item_name kept in args), when it raises the sleep is skipped and
\* the action goes on at once.  A raw element has no expand (AttributeError,
\* passed over) and no descendants (AttributeError, raised).
SelectItem(sel, item_name) ==
  /\ pc = "idle"
  /\ LET r == FindElement(sel)
         l == [Begun("select_item") EXCEPT !.el = r.el]
     IN CASE r.err # None ->
               /\ Return(Res("select_item", r.err, r.msg))
               /\ loc' = l
          [] r.err = None /\ r.el.kind = "raw" ->
               /\ Return(Res("select_item", "AttributeError", "descendants"))
               /\ loc' = [l EXCEPT !.tried = <<"expand", "descendants">>]
          [] OTHER ->
               \E eo \in DirectOutcomes :
                 CASE eo = "block" ->
                        /\ Hang
                        /\ loc' = [l EXCEPT !.tried = <<"expand">>]
                   [] eo = "raise" -> SelectItemRest(l, item_name)
                   [] OTHER ->
                        /\ Sleep("select_item_sleep")
                        /\ loc' = [l EXCEPT !.tried = <<"expand">>, !.args = <<item_name>>]
  /\ ret' = NoRet
  /\ UNCHANGED <<conn, env, exec, cur>>

\* WindowManager.select_item after time.sleep(0.3).
SelectItemWake ==
  /\ pc = "select_item_sleep"
  /\ SelectItemRest([loc EXCEPT !.args = <<>>], loc.args[1])
  /\ ret' = NoRet
  /\ UNCHANGED <<conn, env, exec, cur>>

\* send_keys that drops the connection when the target cannot be read.
SendKeysForgetsLostWindow ==
  /\ pc = "idle"
  /\ LET w == WindowProp
         l == [Begun("send_keys") EXCEPT !.win = w.el, !.dlg = FindDialog]
         failed == Res("send_keys", "RuntimeError", "Cannot send keys")
         unsupported == Res("send_keys", "RuntimeError",
                            "Cannot send keys: send_keys to a modal dialog is not supported.")
     IN CASE w.err # None ->
               /\ Return(Res("send_keys", w.err, w.msg))
               /\ loc' = l
          [] w.err = None /\ w.el.kind = "raw" ->
               /\ Return(unsupported)
               /\ loc' = [l EXCEPT !.tried = <<"set_focus", "type_keys">>]
          [] OTHER ->
               \E fo \in DirectOutcomes :
                 IF fo # "ok"
                   THEN /\ IF fo = "block" THEN Hang ELSE Return(failed)
                        /\ loc' = [l EXCEPT !.tried = <<"set_focus">>]
                   ELSE /\ \E ko \in DirectOutcomes :
                             CASE ko = "block" -> Hang
                               [] ko = "raise" -> Return(failed)
                               [] OTHER -> Return(Res("send_keys", "ok", "Sent keys"))
                        /\ loc' = [l EXCEPT !.tried = <<"set_focus", "type_keys">>]
  /\ ret' = NoRet
  /\ IF WindowProp.err # None
       THEN app' = None /\ window' = None /\ main_handle' = None
       ELSE UNCHANGED conn
  /\ UNCHANGED <<env, exec, cur>>

\* WindowManager.send_keys.  set_focus and type_keys are called on the
\* caller's thread; on a UIA window each returns, raises or blocks.  On a raw
\* dialog set_focus is SetForegroundWindow and type_keys always raises.
SendKeys ==
  /\ pc = "idle"
  /\ LET w == WindowProp
         l == [Begun("send_keys") EXCEPT !.win = w.el, !.dlg = FindDialog]
         failed == Res("send_keys", "RuntimeError", "Cannot send keys")
         unsupported == Res("send_keys", "RuntimeError",
                            "Cannot send keys: send_keys to a modal dialog is not supported.")
     IN CASE w.err # None ->
               /\ Return(Res("send_keys", w.err, w.msg))
               /\ loc' = l
          [] w.err = None /\ w.el.kind = "raw" ->
               /\ Return(unsupported)
               /\ loc' = [l EXCEPT !.tried = <<"set_focus", "type_keys">>]
          [] OTHER ->
               \E fo \in DirectOutcomes :
                 IF fo # "ok"
                   THEN /\ IF fo = "block" THEN Hang ELSE Return(failed)
                        /\ loc' = [l EXCEPT !.tried = <<"set_focus">>]
                   ELSE /\ \E ko \in DirectOutcomes :
                             CASE ko = "block" -> Hang
                               [] ko = "raise" -> Return(failed)
                               [] OTHER -> Return(Res("send_keys", "ok", "Sent keys"))
                        /\ loc' = [l EXCEPT !.tried = <<"set_focus", "type_keys">>]
  /\ ret' = NoRet
  /\ UNCHANGED <<conn, env, exec, cur>>

\* close_window that sends its close request to the tracked main window
\* whatever the current target.
CloseWindowOfMain ==
  /\ pc = "idle"
  /\ LET w == WindowProp
         l == [Begun("close_window") EXCEPT !.win = w.el, !.dlg = FindDialog]
         closing == window # None /\ mainState[window] # "gone"
         \* the state is cleared; the window that was asked to close has
         \* gone or is still there
         Cleared(gone) ==
           /\ Return(Res("close_window", "ok", "Window closed"))
           /\ app' = None
           /\ window' = None
           /\ main_handle' = None
           /\ mainState' = IF gone THEN [mainState EXCEPT ![window] = "gone"]
                                   ELSE mainState
           /\ visible' = visible
     IN /\ loc' = IF closing THEN [l EXCEPT !.tried = <<"close">>] ELSE l
        /\ IF ~closing THEN Cleared(FALSE)
           ELSE \E co \in DirectOutcomes :
                  CASE co = "block" -> Hang /\ UNCHANGED <<conn, env>>
                    [] co = "raise" -> Cleared(FALSE)
                    [] OTHER -> \E gone \in BOOLEAN : Cleared(gone)
  /\ ret' = NoRet
  /\ UNCHANGED <<exec, cur>>

\* WindowManager.close_window.  self.window.close() is called on the
\* caller's thread inside try/except: a failing target lookup and a raw
\* dialog (which has no close) are passed over; on the UIA window close()
\* returns, raises or blocks, and the window may or may not go away when it
\* returns.
CloseWindow ==
  /\ pc = "idle"
  /\ LET w == WindowProp
         l == [Begun("close_window") EXCEPT !.win = w.el, !.dlg = FindDialog]
         closing == w.err = None /\ w.el.kind = "rich"
         \* the state is cleared; the window that was asked to close has
         \* gone or is still there
         Cleared(gone) ==
           /\ Return(Res("close_window", "ok", "Window closed"))
           /\ app' = None
           /\ window' = None
           /\ main_handle' = None
           /\ mainState' = IF gone THEN [mainState EXCEPT ![window] = "gone"]
                                   ELSE mainState
           /\ visible' = visible
     IN /\ loc' = IF closing THEN [l EXCEPT !.tried = <<"close">>] ELSE l
        /\ IF ~closing THEN Cleared(FALSE)
           ELSE \E co \in DirectOutcomes :
                  CASE co = "block" -> Hang /\ UNCHANGED <<conn, env>>
                    [] co = "raise" -> Cleared(FALSE)
                    [] OTHER -> \E gone \in BOOLEAN : Cleared(gone)
  /\ ret' = NoRet
  /\ UNCHANGED <<exec, cur>>

(* ------------------ actions without a bounded call ------------------- *)

\* The selectors set_text, get_text and select_grid_row are tried with: the
\* edit box, the grid, the combo box, a dialog's button, and no criteria.
WidgetSelectors ==
  { Sel(Absent, Absent, "txtName"),
    Sel(Absent, Absent, "grid"),
    Sel("Yes", Absent, Absent),
    Sel(Absent, Absent, Absent) }

\* WindowManager.set_text.  iface_value.SetValue and set_edit_text are called
\* on the caller's thread; a raw element has neither attribute.
SetText(sel) ==
  /\ pc = "idle"
  /\ LET r == FindElement(sel)
         l == [Begun("set_text") EXCEPT !.el = r.el]
         done == Res("set_text", "ok", "Set text")
         failed == Res("set_text", "RuntimeError", "Cannot set text")
     IN CASE r.err # None ->
               /\ Return(Res("set_text", r.err, r.msg))
               /\ loc' = l
          [] r.err = None /\ r.el.kind = "raw" ->
               /\ Return(failed)
               /\ loc' = l
          [] OTHER ->
               \E vo \in DirectOutcomes :
                 CASE vo = "block" ->
                        /\ Hang
                        /\ loc' = [l EXCEPT !.tried = <<"SetValue">>]
                   [] vo = "ok" ->
                        /\ Return(done)
                        /\ loc' = [l EXCEPT !.tried = <<"SetValue">>]
                   [] OTHER ->
                        /\ loc' = [l EXCEPT !.tried = <<"SetValue", "set_edit_text">>]
                        /\ \E eo \in DirectOutcomes :
                             CASE eo = "block" -> Hang
                               [] eo = "ok" -> Return(done)
                               [] OTHER -> Return(failed)
  /\ ret' = NoRet
  /\ UNCHANGED <<conn, env, exec, cur>>

\* WindowManager.get_text.  iface_value.CurrentValue and window_text() are
\* read on the caller's thread; a raw element has no iface_value and its
\* window_text() is its name.
GetText(sel) ==
  /\ pc = "idle"
  /\ LET r == FindElement(sel)
         l == [Begun("get_text") EXCEPT !.el = r.el]
         failed == Res("get_text", "RuntimeError", "Cannot get text")
     IN CASE r.err # None ->
               /\ Return(Res("get_text", r.err, r.msg))
               /\ loc' = l
          [] r.err = None /\ r.el.kind = "raw" ->
               /\ Return(Res("get_text", "ok", ElementInfo(r.el).name))
               /\ loc' = [l EXCEPT !.tried = <<"window_text">>]
          [] OTHER ->
               \E vo \in DirectOutcomes :
                 CASE vo = "block" ->
                        /\ Hang
                        /\ loc' = [l EXCEPT !.tried = <<"CurrentValue">>]
                   [] vo = "ok" ->
                        /\ Return(Res("get_text", "ok", "value"))
                        /\ loc' = [l EXCEPT !.tried = <<"CurrentValue">>]
                   [] OTHER ->
                        /\ loc' = [l EXCEPT !.tried = <<"CurrentValue", "window_text">>]
                        /\ \E wo \in DirectOutcomes :
                             CASE wo = "block" -> Hang
                               [] wo = "ok" -> Return(Res("get_text", "ok", ElementInfo(r.el).name))
                               [] OTHER -> Return(failed)
  /\ ret' = NoRet
  /\ UNCHANGED <<conn, env, exec, cur>>

\* get_ui_tree(max_depth=3) and name[:50]
DefaultMaxDepth == 3
NameLimit == 50

\* A name of n characters.
Letters(n) == [i \in 1..n |-> "x"]
\* The characters of an element's name in the dump: the window's title for
\* the main window, and for every other element a name as long as its number.
NameChars(el, title) ==
  IF el.kind = "rich" /\ el.n = 1 THEN title ELSE Letters(el.n)

\* if len(name) > 50: name = name[:50]
Truncate(name) == IF Len(name) > NameLimit THEN SubSeq(name, 1, NameLimit) ELSE name

\* "  " * depth
Indent(depth) == [i \in 1..(2 * depth) |-> " "]

\* One line of the dump, f'{indent}{control_type}  Name="{name}"  AutoId="{auto_id}"',
\* as its parts (el: the element the line is for).
TreeLine(el, depth, title) ==
  [indent |-> Indent(depth),
   control_type |-> ElementInfo(el).control_type,
   name |-> Truncate(NameChars(el, title)),
   auto_id |-> ElementInfo(el).automation_id,
   el |-> el]

\* if depth < max_depth
Descend(depth, max_depth) == depth < max_depth

\* A call of the accessibility tree that raises during a dump: children() of
\* node n, or element_info of node n of the UIA window (a raw element's
\* element_info is a plain attribute), or none.
NoFault == [op |-> None, n |-> 0]
ChildrenRaises(el, fault) == fault.op = "children" /\ fault.n = el.n
InfoRaises(el, fault) == fault.op = "element_info" /\ fault.n = el.n /\ el.kind = "rich"

RECURSIVE Walk(_, _, _, _, _), WalkKids(_, _, _, _, _, _)
\* _walk(element, depth): the lines it appends, and whether it raised.  It
\* raises when element_info does, before the element's line; the loop over
\* element.children() is inside try/except Exception: pass, so children()
\* raising gives no child line, and a child's _walk raising ends the loop
\* with the lines appended so far.
Walk(el, depth, max_depth, title, fault) ==
  IF InfoRaises(el, fault) THEN [lines |-> <<>>, raised |-> TRUE]
  ELSE [lines |-> <<TreeLine(el, depth, title)>>
                    \o (IF Descend(depth, max_depth) /\ ~ChildrenRaises(el, fault)
                          THEN WalkKids(el, 1, depth, max_depth, title, fault)
                          ELSE <<>>),
        raised |-> FALSE]
WalkKids(el, i, depth, max_depth, title, fault) ==
  IF i > Len(Children(el)) THEN <<>>
  ELSE LET r == Walk(Children(el)[i], depth + 1, max_depth, title, fault)
       IN IF r.raised THEN <<>>
          ELSE r.lines \o WalkKids(el, i + 1, depth, max_depth, title, fault)

\* WindowManager.get_ui_tree(max_depth) on an application whose main window
\* has the given title, with one call of the tree raising or none: the
\* target window is read, and the walk gives the lines (kept in args with
\* the inputs) unless the root's element_info raises, which goes out.
GetUiTreeOf(max_depth, title, fault) ==
  /\ pc = "idle"
  /\ LET w == WindowProp
         l == [Begun("get_ui_tree") EXCEPT !.win = w.el]
         r == Walk(w.el, 0, max_depth, title, fault)
     IN IF w.err # None
          THEN /\ Return(Res("get_ui_tree", w.err, w.msg))
               /\ loc' = l
          ELSE IF r.raised
                 THEN /\ Return(Res("get_ui_tree", "Exception", "element_info"))
                      /\ loc' = l
                 ELSE /\ Return(Res("get_ui_tree", "ok", "tree"))
                      /\ loc' = [l EXCEPT !.args = <<max_depth, title, r.lines, fault>>]
  /\ ret' = NoRet
  /\ UNCHANGED <<conn, env, exec, cur>>

\* The calls that raise during a dump: none, children() of the window or of
\* the application's menu bar, element_info of the window or of the combo box.
TreeFaults ==
  { NoFault,
    [op |-> "children", n |-> 1], [op |-> "children", n |-> 3],
    [op |-> "element_info", n |-> 1], [op |-> "element_info", n |-> 8] }

\* The tool get_ui_tree: wm.get_ui_tree() with the default depth, on the
\* application of AppTree.
GetUiTree == \E fault \in TreeFaults : GetUiTreeOf(DefaultMaxDepth, Letters(3), fault)

\* The depths and the window titles get_ui_tree is tried with.
TreeDepths == 0..DefaultMaxDepth
TreeTitles == {Letters(n) : n \in {0, NameLimit - 1, NameLimit, NameLimit + 1, NameLimit + 10}}

\* WindowManager.save_screenshot up to the sleep.  os.makedirs runs before
\* the target is read and outside the try (an OSError goes out as it is);
\* set_focus runs on the caller's thread inside it (a raw dialog's set_focus
\* is SetForegroundWindow, which returns) and is followed by time.sleep(0.3).
SaveScreenshot ==
  /\ pc = "idle"
  /\ LET w == WindowProp
         l == [Begun("save_screenshot") EXCEPT !.win = w.el, !.dlg = FindDialog]
         failed == Res("save_screenshot", "RuntimeError", "Cannot save screenshot")
     IN \E mo \in {"ok", "raise"} :
          CASE mo = "raise" ->
                 /\ Return(Res("save_screenshot", "OSError", "makedirs"))
                 /\ loc' = [Begun("save_screenshot") EXCEPT !.tried = <<"makedirs">>,
                                                            !.dlg = FindDialog]
            [] mo = "ok" /\ w.err # None ->
                 /\ Return(Res("save_screenshot", w.err, w.msg))
                 /\ loc' = [l EXCEPT !.tried = <<"makedirs">>]
            [] OTHER ->
                 /\ loc' = [l EXCEPT !.tried = <<"makedirs", "set_focus">>]
                 /\ \E fo \in DirectOutcomes :
                      CASE fo = "ok" \/ w.el.kind = "raw" -> Sleep("save_screenshot_sleep")
                        [] fo = "block" /\ w.el.kind # "raw" -> Hang
                        [] OTHER -> Return(failed)
  /\ ret' = NoRet
  /\ UNCHANGED <<conn, env, exec, cur>>

\* save_screenshot whose capture works on a dialog as it does on a window.
SaveScreenshotWakeOfDialog ==
  /\ pc = "save_screenshot_sleep"
  /\ LET failed == Res("save_screenshot", "RuntimeError", "Cannot save screenshot")
     IN \E co \in {"ok", "raise"}, so \in {"ok", "raise"} :
          IF co = "raise"
            THEN /\ Return(failed)
                 /\ loc' = [loc EXCEPT !.tried = @ \o <<"capture_as_image">>]
            ELSE /\ loc' = [loc EXCEPT !.tried = @ \o <<"capture_as_image", "save">>]
                 /\ IF so = "raise" THEN Return(failed)
                    ELSE Return(Res("save_screenshot", "ok", "Screenshot saved"))
  /\ ret' = NoRet
  /\ UNCHANGED <<conn, env, exec, cur>>

\* WindowManager.save_screenshot after time.sleep(0.3): capture_as_image
\* and image.save run on the caller's thread inside the try.  A raw dialog's
\* capture_as_image always raises.
SaveScreenshotWake ==
  /\ pc = "save_screenshot_sleep"
  /\ LET failed == Res("save_screenshot", "RuntimeError", "Cannot save screenshot")
         unsupported == Res("save_screenshot", "RuntimeError",
                            "Cannot save screenshot: Screenshot of modal dialog is not supported.")
     IN IF loc.win.kind = "raw"
          THEN /\ Return(unsupported)
               /\ loc' = [loc EXCEPT !.tried = @ \o <<"capture_as_image">>]
          ELSE \E co \in {"ok", "raise"}, so \in {"ok", "raise"} :
                 IF co = "raise"
                   THEN /\ Return(failed)
                        /\ loc' = [loc EXCEPT !.tried = @ \o <<"capture_as_image">>]
                   ELSE /\ loc' = [loc EXCEPT !.tried = @ \o <<"capture_as_image", "save">>]
                        /\ IF so = "raise" THEN Return(failed)
                           ELSE Return(Res("save_screenshot", "ok", "Screenshot saved"))
  /\ ret' = NoRet
  /\ UNCHANGED <<conn, env, exec, cur>>

\* The marker of a top row's name and the names that contain it; str.lower().
TopMarker == "Toppu"
Contains(name, part) ==
  \/ name = part
  \/ part = TopMarker /\ name = "Toppu no gyou"
Lower(name) ==
  CASE name = "Toppu no gyou" -> "toppu no gyou"
    [] name = "Header" -> "header"
    [] name = "Row 0" -> "row 0"
    [] name = "Row 1" -> "row 1"
    [] OTHER -> name

\* The row filter of select_grid_row for one child of the grid.
IsRow(child) ==
  /\ ElementInfo(child).control_type \in {"Custom", "DataItem"}
  /\ ~Contains(ElementInfo(child).name, TopMarker)
  /\ ~Contains(Lower(ElementInfo(child).name), "Header")

\* The row indexes select_grid_row is tried with.
RowIndexes == -1..3

\* row_index < 0 or row_index >= len(rows), and the same without its first half.
OutOfRangeAbove(row_index, n) == row_index >= n
OutOfRange(row_index, n) == row_index < 0 \/ row_index >= n

\* f"Row index {row_index} out of range (0-{len(rows) - 1})": the range named
\* by the message, for the last valid index hi.
RangeMessage(hi) ==
  CASE hi = -1 -> "out of range (0--1)"
    [] hi = 0 -> "out of range (0-0)"
    [] hi = 1 -> "out of range (0-1)"
    [] hi = 2 -> "out of range (0-2)"
    [] hi = 3 -> "out of range (0-3)"
    [] OTHER -> "out of range (0-n)"

\* rows[k] of a Python list: k counts from the end when negative.
ListItem(rows, k) ==
  IF k >= 0 /\ k < Len(rows) THEN rows[k + 1]
  ELSE IF k < 0 /\ -k <= Len(rows) THEN rows[Len(rows) + k + 1]
  ELSE NoElem

\* WindowManager.select_grid_row up to the click fallback: the rows are
\* filtered, the index checked, then Select() is called on the caller's
\* thread on the row and, failing that, on its first cell; failing both,
\* target_row.click_input is submitted (a raw element has none of these).
\* The grid (win), the row index and the number of rows counted (args) are
\* kept as history; el becomes the row once one is chosen.
SelectGridRow(sel, row_index) ==
  /\ pc = "idle"
  /\ LET r == FindElement(sel)
         rows == IF r.err = None THEN SelectSeq(Children(r.el), IsRow) ELSE <<>>
         l == [Begun("select_grid_row") EXCEPT !.el = r.el, !.win = r.el,
                                               !.args = <<row_index, Len(rows)>>]
         target_row == ListItem(rows, row_index)
         done == Res("select_grid_row", "ok", "Selected row")
         failed == Res("select_grid_row", "RuntimeError", "Cannot select row")
     IN CASE r.err # None ->
               /\ Return(Res("select_grid_row", r.err, r.msg))
               /\ loc' = l
          [] r.err = None /\ OutOfRange(row_index, Len(rows)) ->
               /\ Return(Res("select_grid_row", "IndexError", RangeMessage(Len(rows) - 1)))
               /\ loc' = l
          [] r.err = None /\ ~OutOfRange(row_index, Len(rows))
               /\ target_row = NoElem ->
               \* rows[row_index] raises for an index outside the list
               /\ Return(Res("select_grid_row", "IndexError", "list index out of range"))
               /\ loc' = l
          [] r.err = None /\ ~OutOfRange(row_index, Len(rows))
               /\ target_row.kind = "raw" ->
               /\ Return(failed)
               /\ loc' = [l EXCEPT !.el = target_row]
          [] OTHER ->
               \E ro \in DirectOutcomes :
                 CASE ro = "block" ->
                        /\ Hang
                        /\ loc' = [l EXCEPT !.el = target_row, !.tried = <<"select_row">>]
                   [] ro = "ok" ->
                        /\ Return(done)
                        /\ loc' = [l EXCEPT !.el = target_row, !.tried = <<"select_row">>]
                   [] OTHER ->
                        IF Children(target_row) = <<>>
                          THEN /\ Goto("grid_click")
                               /\ loc' = [l EXCEPT !.el = target_row,
                                                   !.tried = <<"select_row", "click_input">>]
                          ELSE \E co \in DirectOutcomes :
                                 CASE co = "block" ->
                                        /\ Hang
                                        /\ loc' = [l EXCEPT !.el = target_row,
                                                            !.tried = <<"select_row", "select_cell">>]
                                   [] co = "ok" ->
                                        /\ Return(done)
                                        /\ loc' = [l EXCEPT !.el = target_row,
                                                            !.tried = <<"select_row", "select_cell">>]
                                   [] OTHER ->
                                        /\ Goto("grid_click")
                                        /\ loc' = [l EXCEPT !.el = target_row,
                                                            !.tried = <<"select_row", "select_cell",
                                                                        "click_input">>]
  /\ ret' = NoRet
  /\ UNCHANGED <<conn, env, exec, cur>>

\* select_grid_row after _run_with_timeout(target_row.click_input): any
\* exception, a timeout included, is raised as "Cannot select row".
GridClickRet ==
  /\ pc = "grid_click" /\ rpc = "return"
  /\ IF ret.exc = None
       THEN Return(Res("select_grid_row", "ok", "Selected row"))
       ELSE Return(Res("select_grid_row", "RuntimeError", "Cannot select row"))
  /\ loc' = Noted("click_input")
  /\ ret' = NoRet
  /\ UNCHANGED <<conn, env, exec, cur>>

\* The tool functions list_windows and switch_window: WindowManager has no
\* method list_windows or switch_window, so wm.list_windows() and
\* wm.switch_window(...) raise AttributeError before anything else happens.
\* title and index are <<>> (not given, None) or <<value>>; the connection
\* and the main window's state at the time of the call are kept as history.
ListWindows ==
  /\ pc = "idle"
  /\ Return(Res("list_windows", "AttributeError", "no attribute list_windows"))
  /\ loc' = Begun("list_windows")
  /\ ret' = NoRet
  /\ UNCHANGED <<conn, env, exec, cur>>

WindowTitles == {<<>>, <<"App">>, <<"Nope">>}
WindowIndexes == {<<>>, <<0>>, <<7>>}

SwitchWindow(title, index) ==
  /\ pc = "idle"
  /\ Return(Res("switch_window", "AttributeError", "no attribute switch_window"))
  /\ loc' = [Begun("switch_window") EXCEPT !.args = <<title, index>>,
                                             !.tracked = window, !.main = MainStateOf(window)]
  /\ ret' = NoRet
  /\ UNCHANGED <<conn, env, exec, cur>>

\* The tool functions that take a selector: json.loads(selector) raises
\* JSONDecodeError for a string that is not JSON, before the method is called.
SelectorTools == {"click", "set_text", "get_text", "select_item", "select_grid_row"}
BadSelectorJson(act) ==
  /\ pc = "idle"
  /\ Return(Res(act, "JSONDecodeError", "json.loads"))
  /\ loc' = Begun(act)
  /\ ret' = NoRet
  /\ UNCHANGED <<conn, env, exec, cur>>

(* --------------------------- the environment -------------------------- *)

\* The windows the application shows besides its main window.
DialogHandles == {"hDlgA", "hDlgB"}

\* The application shows a dialog.
EnvDialogOpens(h) ==
  /\ h \notin visible
  /\ visible' = visible \cup {h}
  /\ UNCHANGED <<conn, mainState, exec, caller>>

\* A dialog is dismissed.
EnvDialogCloses(h) ==
  /\ h \in visible
  /\ visible' = visible \ {h}
  /\ UNCHANGED <<conn, mainState, exec, caller>>

\* The top window of an application is minimized, restored, closed or
\* opened again, or starts or stops failing when asked.
EnvMainState(h, m) ==
  /\ m # mainState[h]
  /\ mainState' = [mainState EXCEPT ![h] = m]
  /\ UNCHANGED <<conn, visible, exec, caller>>

(* ------------------------- the specification -------------------------- *)

Init ==
  /\ app = None
  /\ window = None
  /\ main_handle = None
  /\ visible = {"hMain", "hOther"}
  /\ mainState = [h \in MainWindows |-> "normal"]
  /\ executor = 0
  /\ futs = [f \in FutIds |-> FreeFut]
  /\ queue = [e \in ExIds |-> <<>>]
  /\ pc = "idle"
  /\ rpc = "none"
  /\ cur = 0
  /\ ret = NoRet
  /\ loc = NewLoc(None)
  /\ result = NoResult
  /\ reply = NoReply

Next ==
  \/ \E ok \in BOOLEAN : Connect(ok, "hMain")
  \/ \E sel \in Selectors : ClickBegin(sel)
  \/ ClickInvokeRet
  \/ ClickToggleRet
  \/ ClickExpandCollapseRet
  \/ \E path \in Paths : MenuBegin(path)
  \/ MenuOpenExpandRet
  \/ MenuOpenInvokeRet
  \/ MenuInvokeRet
  \/ MenuExpandRet
  \/ MenuSegment
  \/ \E sel \in Selectors, item \in ItemNames : SelectItem(sel, item)
  \/ SelectItemWake
  \/ SendKeys
  \/ CloseWindow
  \/ RunSubmit
  \/ \E o \in Outcomes : RunResult(o)
  \/ RunTimeout
  \/ \E e \in ExIds : WorkerStart(e)
  \/ \E f \in FutIds : WorkerFinish(f)
  \/ \E h \in DialogHandles : EnvDialogOpens(h)
  \/ \E h \in DialogHandles : EnvDialogCloses(h)

Spec == Init /\ [][Next]_vars

\* Each pool's worker is an operating-system thread: it takes a queued work
\* item sooner or later once it is free.
FairSpec == Spec /\ \A e \in ExIds : WF_vars(WorkerStart(e))

\* The target resolver on its own, against every state of the application's
\* windows.
NextTarget ==
  \/ \E ok \in BOOLEAN : Connect(ok, "hMain")
  \/ GetWindow
  \/ CloseWindow
  \/ \E h \in DialogHandles : EnvDialogOpens(h)
  \/ \E h \in DialogHandles : EnvDialogCloses(h)
  \/ \E m \in MainStates : EnvMainState("hMain", m)

SpecTarget == Init /\ [][NextTarget]_vars

\* connect tried on either application in every state of the session,
\* connected or not, with close_window and reads of the current target,
\* while either application's window closes or is opened again.
NextConnect ==
  \/ \E ok \in BOOLEAN : \E h \in MainWindows : Connect(ok, h)
  \/ GetWindow
  \/ CloseWindow
  \/ \E h \in DialogHandles : EnvDialogOpens(h)
  \/ \E h \in DialogHandles : EnvDialogCloses(h)
  \/ \E h \in MainWindows : \E m \in {"normal", "gone"} : EnvMainState(h, m)

SpecConnect == Init /\ [][NextConnect]_vars

\* Every tool of the server on one session, each tried on the widget
\* selectors and on a menu path that exists and one that does not.
SessionPaths == {<<"File">>, <<"File", "File">>, <<"File", "Nope">>}
SessionRows == {0, 3}
NextSession ==
  \/ \E ok \in BOOLEAN : Connect(ok, "hMain")
  \/ \E sel \in WidgetSelectors : ClickBegin(sel)
  \/ ClickInvokeRet
  \/ ClickToggleRet
  \/ ClickExpandCollapseRet
  \/ \E path \in SessionPaths : MenuBegin(path)
  \/ MenuOpenExpandRet
  \/ MenuOpenInvokeRet
  \/ MenuInvokeRet
  \/ MenuExpandRet
  \/ MenuSegment
  \/ \E sel \in WidgetSelectors : SelectItem(sel, "A")
  \/ SelectItemWake
  \/ SendKeys
  \/ CloseWindow
  \/ RunSubmit
  \/ \E o \in Outcomes : RunResult(o)
  \/ RunTimeout
  \/ \E e \in ExIds : WorkerStart(e)
  \/ \E f \in FutIds : WorkerFinish(f)
  \/ \E h \in DialogHandles : EnvDialogOpens(h)
  \/ \E h \in DialogHandles : EnvDialogCloses(h)
  \/ \E sel \in WidgetSelectors : SetText(sel)
  \/ \E sel \in WidgetSelectors : GetText(sel)
  \/ GetUiTree
  \/ SaveScreenshot
  \/ SaveScreenshotWake
  \/ \E sel \in WidgetSelectors, k \in SessionRows : SelectGridRow(sel, k)
  \/ GridClickRet
  \/ ListWindows
  \/ \E title \in WindowTitles, index \in WindowIndexes : SwitchWindow(title, index)
  \/ \E act \in SelectorTools : BadSelectorJson(act)

SpecSession == Init /\ [][NextSession]_vars

\* The actions that act on a connected session, with the application's main
\* window minimized, restored or gone and its dialogs opening and closing in
\* between: each action is tried on the grid and on a dialog's button.
FrameSelectors == {Sel(Absent, Absent, "grid"), Sel("Yes", Absent, Absent)}
FrameMainStates == {"normal", "minimized", "gone"}
NextFrame ==
  \/ \E ok \in BOOLEAN : Connect(ok, "hMain")
  \/ \E sel \in FrameSelectors : ClickBegin(sel)
  \/ ClickInvokeRet
  \/ ClickToggleRet
  \/ ClickExpandCollapseRet
  \/ \E path \in SessionPaths : MenuBegin(path)
  \/ MenuOpenExpandRet
  \/ MenuOpenInvokeRet
  \/ MenuInvokeRet
  \/ MenuExpandRet
  \/ MenuSegment
  \/ \E sel \in FrameSelectors : SelectItem(sel, "A")
  \/ SelectItemWake
  \/ SendKeys
  \/ CloseWindow
  \/ RunSubmit
  \/ \E o \in Outcomes : RunResult(o)
  \/ RunTimeout
  \/ \E e \in ExIds : WorkerStart(e)
  \/ \E f \in FutIds : WorkerFinish(f)
  \/ \E h \in DialogHandles : EnvDialogOpens(h)
  \/ \E h \in DialogHandles : EnvDialogCloses(h)
  \/ \E m \in FrameMainStates : EnvMainState("hMain", m)
  \/ \E sel \in FrameSelectors : SetText(sel)
  \/ \E sel \in FrameSelectors : GetText(sel)
  \/ GetUiTree
  \/ SaveScreenshot
  \/ SaveScreenshotWake
  \/ \E sel \in FrameSelectors : SelectGridRow(sel, 0)
  \/ GridClickRet

SpecFrame == Init /\ [][NextFrame]_vars

\* select_grid_row on its own: every row index on the grid, on a widget
\* without rows and on a dialog's button, with dialogs opening and closing.
NextGrid ==
  \/ \E ok \in BOOLEAN : Connect(ok, "hMain")
  \/ \E sel \in WidgetSelectors, k \in RowIndexes : SelectGridRow(sel, k)
  \/ GridClickRet
  \/ RunSubmit
  \/ \E o \in Outcomes : RunResult(o)
  \/ RunTimeout
  \/ \E e \in ExIds : WorkerStart(e)
  \/ \E f \in FutIds : WorkerFinish(f)
  \/ \E h \in DialogHandles : EnvDialogOpens(h)
  \/ \E h \in DialogHandles : EnvDialogCloses(h)

SpecGrid == Init /\ [][NextGrid]_vars

\* get_ui_tree on its own, for every depth and title, on the main window
\* and on the dialogs.
NextTree ==
  \/ \E ok \in BOOLEAN : Connect(ok, "hMain")
  \/ \E max_depth \in TreeDepths, title \in TreeTitles, fault \in TreeFaults :
       GetUiTreeOf(max_depth, title, fault)
  \/ \E h \in DialogHandles : EnvDialogOpens(h)
  \/ \E h \in DialogHandles : EnvDialogCloses(h)

SpecTree == Init /\ [][NextTree]_vars

\* The selector resolver on its own, against the main window's tree and the
\* dialogs' trees.
NextResolve ==
  \/ \E ok \in BOOLEAN : Connect(ok, "hMain")
  \/ \E sel \in AllSelectors : Resolve(sel)
  \/ \E h \in DialogHandles : EnvDialogOpens(h)
  \/ \E h \in DialogHandles : EnvDialogCloses(h)

SpecResolve == Init /\ [][NextResolve]_vars


(* ------------------------------ properties ---------------------------- *)

\* C1: a run call whose deadline elapsed raises the timed-out failure, and an
\* operation submitted afterwards is never queued behind a busy worker: it
\* is the only item of its pool's queue, that pool's worker is free, and the
\* worker does take it, however long the timed-out operation stays stuck.
C1_TimedOutThenNextRuns ==
  /\ [](rpc = "return" /\ ret.deadline => IsTimedOut(ret) /\ ret.src = 0)
  /\ [](\A f \in FutIds :
          futs[f].st = "queued" =>
            /\ queue[futs[f].ex] = <<f>>
            /\ Running(futs[f].ex) = {})
  /\ \A f \in FutIds : (futs[f].st = "queued") ~> (futs[f].st # "queued")

\* C1 witness: a timed-out operation is still executing, and the run call
\* made after it has returned its own operation's outcome.
C1_Witness ==
  /\ rpc = "return" /\ ret.src # 0
  /\ \E f \in FutIds : futs[f].abandoned /\ futs[f].st = "running"

\* C2: every action returns: the caller is never stuck in a call into the
\* target's UI thread that it made on its own thread.
C2_EveryActionReturns == pc # "hung"

\* C3 as stated: at most one submitted operation is executing at any moment,
\* after timeouts too.
C3_AtMostOneExecuting ==
  Cardinality({f \in FutIds : futs[f].st = "running"}) <= 1

\* C3 amended: each pool's worker executes at most one operation at a time
\* and nothing waits in a queue behind another item; an operation that is
\* executing and was not abandoned after a timeout is the one the caller is
\* waiting for, so two operations execute together only when all but one of
\* them were abandoned.
C3_OnePerWorker ==
  /\ \A e \in ExIds : Cardinality(Running(e)) <= MaxWorkers /\ Len(queue[e]) <= 1
  /\ \A f \in FutIds :
       futs[f].st \in {"queued", "running"} /\ ~futs[f].abandoned
         => f = cur /\ rpc = "result"
  /\ Cardinality({f \in FutIds : futs[f].st = "running" /\ ~futs[f].abandoned}) <= 1

\* C3 witness: the operation being waited for executes on the new worker
\* while an abandoned one still executes on the old worker.
C3_Witness ==
  /\ cur # 0 /\ futs[cur].st = "running"
  /\ \E f \in FutIds : f # cur /\ futs[f].abandoned /\ futs[f].st = "running"
                        /\ futs[f].ex # futs[cur].ex

\* C4: a run call returns the outcome of the operation it submitted itself,
\* never that of an operation abandoned after a timeout.
C4_OwnOutcomeOnly ==
  rpc = "return" /\ ret.src # 0 => ret.src = ret.sub /\ ~ret.stale

\* C4 witness: an abandoned operation has completed meanwhile, and a later
\* run call has returned an outcome.
C4_Witness ==
  /\ rpc = "return" /\ ret.src # 0
  /\ \E f \in FutIds : futs[f].abandoned /\ futs[f].st = "done"

\* C5: when the window property is read while the dialog detector reports a
\* dialog, the dialog is returned; while it reports none, the tracked main
\* window is returned, or the read fails because there is no usable main
\* window.
C5_DialogOverride ==
  loc.act = "window" =>
    IF loc.dlg # None
      THEN result.kind = "ok" /\ loc.win = Raw(loc.dlg, 1)
      ELSE \/ result.kind = "ok" /\ loc.tracked # None /\ loc.win = Rich(loc.tracked, 1)
           \/ result.kind \in {"RuntimeError", "LookupError"} /\ loc.win = NoElem

\* C5 witness: the window property was read while connected to the main
\* window with a dialog open, and gave the dialog.
C5_Witness ==
  /\ loc.act = "window" /\ loc.tracked = "hMain"
  /\ loc.dlg \in DialogHandles /\ loc.win = Raw(loc.dlg, 1)

\* C6: once the invoke of a segment that is not the last has timed out,
\* select_menu has failed and no later segment has been invoked.
C6_EarlyTimeoutFails ==
  loc.act = "select_menu" =>
    \A t \in loc.timedOut :
      t.call = "invoke" /\ t.i < Len(loc.segs) =>
        /\ pc = "idle"
        /\ result.kind \notin {"ok", None}
        /\ \A j \in loc.invoked : j <= t.i

\* C7 as stated: when the invoke of the last segment has timed out,
\* select_menu has returned without a failure, with the dialog detector
\* asked again and its answer in the message.
C7_LastTimeoutReports ==
  loc.act = "select_menu" =>
    \A t \in loc.timedOut :
      t.call = "invoke" /\ t.i = Len(loc.segs) =>
        /\ pc = "idle"
        /\ result.kind = "ok"
        /\ loc.seen # Absent
        /\ IF loc.seen # None
             THEN result.msg = "A dialog appeared" /\ result.dlg = DialogTitle(loc.seen)
             ELSE result.msg = "timed out but no dialog was detected"

\* C8: when a segment after the first has no menu item, then once the loop
\* has looked for it (its sleep is over) escape has been sent to the window
\* by the time select_menu fails with the lookup error, and no item of that
\* segment or a later one has been invoked.
C8_EscapeBeforeNotFound ==
  loc.act = "select_menu" /\ loc.i >= 2 /\ loc.i <= Len(loc.segs)
    /\ pc # "menu_sleep"
    /\ MenuItemOf(loc.win, loc.segs[loc.i]) = NoElem =>
      /\ loc.esc
      /\ loc.tried # <<>> /\ loc.tried[Len(loc.tried)] = "type_keys"
      /\ \A j \in loc.invoked : j < loc.i
      /\ pc \in {"idle", "hung"}
      /\ pc = "idle" =>
           result.kind = "LookupError" /\ result.msg = "Menu item not found"

\* C8 witness: select_menu failed with the lookup error at the third
\* segment after the first two were invoked.
C8_Witness ==
  /\ pc = "idle" /\ loc.act = "select_menu" /\ loc.i = 3
  /\ result.kind = "LookupError" /\ result.msg = "Menu item not found"
  /\ loc.invoked = {1, 2} /\ loc.esc

\* C9: when a pattern call of click has timed out, click has returned
\* without a failure and without a further pattern call, with the dialog
\* detector asked again and its answer in the message.
C9_ClickTimeoutReports ==
  loc.act = "click" /\ loc.timedOut # {} =>
    /\ pc = "idle"
    /\ result.kind = "ok"
    /\ loc.timedOut = {[i |-> 0, call |-> loc.tried[Len(loc.tried)]]}
    /\ loc.seen # Absent
    /\ IF loc.seen # None
         THEN result.msg = "A dialog appeared" /\ result.dlg = DialogTitle(loc.seen)
         ELSE result.msg = "timed out but no dialog was detected"

\* C9 witness: the toggle call of click, tried after invoke had failed,
\* timed out and click returned naming the dialog that had opened.
C9_Witness ==
  /\ pc = "idle" /\ loc.act = "click" /\ loc.tried = <<"invoke", "toggle">>
  /\ loc.timedOut # {}
  /\ result.msg = "A dialog appeared"

\* C10: click reports a timeout exactly when the deadline of one of its
\* pattern calls elapsed.
C10_TimedOutIffDeadline ==
  pc = "idle" /\ loc.act = "click" /\ loc.el # NoElem =>
    (result.msg \in {"A dialog appeared", "timed out but no dialog was detected"}
       <=> loc.timedOut # {})


\* C11: the pool is replaced by a run call exactly when that call's deadline
\* elapsed; an operation that ended in time has its result returned or its
\* own exception raised with the pool kept; and nothing waits for or runs on
\* a replaced pool's worker that was submitted after the replacement.
C11_ReplacedIffTimedOut ==
  /\ rpc = "return" =>
       /\ ret.replaced <=> ret.deadline
       /\ ret.own = "ok" => ret.exc = None /\ ~ret.replaced
       /\ ret.own \in {"Exception", "RuntimeError", "RuntimeError_timed_out", "TimeoutError"} =>
            /\ ~ret.replaced
            /\ ret.exc = (IF ret.own = "RuntimeError_timed_out" THEN "RuntimeError" ELSE ret.own)
  /\ \A f \in FutIds :
       futs[f].st \in {"queued", "running"} /\ ~futs[f].abandoned => futs[f].ex = executor


\* C12: a read of the window property fails with "No app connected." when
\* nothing is connected; when connected with no dialog detected it fails with
\* "no longer exists" if exists() of the tracked window is false, with "is
\* minimized" if the minimized query reports minimized, and returns the
\* tracked window only when the window exists and is not minimized.
C12_TargetFailures ==
  loc.act = "window" =>
    /\ loc.tracked = None =>
         result.kind = "RuntimeError" /\ result.msg = "No app connected."
    /\ loc.tracked # None /\ loc.dlg = None =>
         /\ loc.main = "gone" =>
              result.kind = "RuntimeError"
                /\ result.msg = "Connected window no longer exists."
         /\ loc.main = "minimized" =>
              result.kind = "RuntimeError" /\ result.msg = "Window is minimized."
    /\ result.kind = "ok" /\ loc.win.kind = "rich" =>
         /\ loc.win = Rich(loc.tracked, 1)
         /\ loc.main \in {"normal", "opaque"}

\* C13: find_element called with a selector in which title, control_type and
\* auto_id are each absent or null fails and returns no element.
C13_NoCriteriaNotFound ==
  loc.act = "find_element"
    /\ loc.sel.title \in {Absent, None}
    /\ loc.sel.control_type \in {Absent, None}
    /\ loc.sel.auto_id \in {Absent, None}
    => result.kind # "ok" /\ loc.el = NoElem

\* C14: find_element that has a root to search from returns the first
\* element below the root, in pre-order, whose name, control type and
\* automation id equal every selector field that is set; with no such
\* element it fails with "Element not found".
C14_FirstPreOrderMatch ==
  loc.act = "find_element" /\ loc.win # NoElem =>
    LET Agrees(v, p) == v \in {Absent, None} \/ v = p
        IsMatch(e) == /\ Agrees(loc.sel.title, ElementInfo(e).name)
                      /\ Agrees(loc.sel.control_type, ElementInfo(e).control_type)
                      /\ Agrees(loc.sel.auto_id, ElementInfo(e).automation_id)
        cands == SelectSeq(Descendants(loc.win), IsMatch)
    IN IF cands = <<>>
         THEN result.kind = "LookupError" /\ result.msg = "Element not found"
                /\ loc.el = NoElem
         ELSE result.kind = "ok" /\ loc.el = cands[1]

\* C14 witness: a selector matched by several elements of the main window's
\* tree gave the first of them in pre-order, the menu item "File", which has
\* another match, "Open", below it.
C14_Witness ==
  /\ loc.act = "find_element"
  /\ loc.sel = Sel(Absent, "MenuItem", Absent)
  /\ loc.win = Rich("hMain", 1)
  /\ result.kind = "ok" /\ ElementInfo(loc.el).name = "File"

\* C15: whenever a tool function of the server hands something to the
\* transport, it is a string and not an exception: the method's own string
\* when the method succeeded, and an error string when the method (or
\* json.loads before it) raised, whatever the class of the exception.
C15_ToolsReturnStrings ==
  reply.tool # None =>
    /\ ~reply.raised
    /\ reply.text # None
    /\ reply.error <=> (result.kind # "ok")

\* C15: a tool that calls an existing method has answered with an error
\* string for an exception that none of its named except clauses catches.
C15_Witness ==
  /\ reply.tool \notin {None, "list_windows", "switch_window"}
  /\ reply.error /\ ~reply.raised /\ reply.text # None
  /\ \A i \in DOMAIN ExceptClausesNamedOnly(reply.tool) :
       ~IsSubclass(result.kind, ExceptClausesNamedOnly(reply.tool)[i])

\* C16: switch_window called on a connected session whose main window
\* ("App", the first visible window of the process) is there, with exactly
\* one of title and index given and matching it (a substring of its title,
\* or index 0), succeeds.
C16_SwitchWindowSucceeds ==
  (/\ result.act = "switch_window"
   /\ loc.tracked # None
   /\ loc.main = "normal"
   /\ loc.args \in {<< <<"App">>, <<>> >>, << <<>>, <<0>> >>})
  => result.kind = "ok"

\* C17: a close_window that has been called has completed with its success
\* string and left the process, the window reference and the main-window
\* handle unset, whatever came of the close request; and from then until a
\* connect succeeds every action that is called fails with "No app
\* connected".
C17_CloseCompletesThenNotConnected ==
  /\ loc.act = "close_window" =>
       /\ pc = "idle"
       /\ result.kind = "ok" /\ result.msg = "Window closed"
       /\ app = None /\ window = None /\ main_handle = None
  /\ (/\ pc = "idle" /\ loc.closed
      /\ result.act \in {"get_ui_tree", "click", "set_text", "get_text", "select_item",
                         "select_grid_row", "select_menu", "send_keys", "save_screenshot"}
      /\ result.kind # "JSONDecodeError") =>
       result.kind = "RuntimeError" /\ result.msg = "No app connected."

\* C18: when connect returns, the session holds either no connection at all
\* (the attempt failed: process, window reference and main-window handle are
\* all unset, whatever they were before) or exactly the connection just made
\* (the attempt succeeded: all three are those of the window found, whatever
\* was connected before); and at every moment the three fields are all unset
\* or all those of one window.
C18_ConnectAllOrNothing ==
  /\ (pc = "idle" /\ result.act = "connect") =>
       IF result.kind = "ok"
         THEN /\ loc.win.h \in MainWindows
              /\ app = OwnerPid[loc.win.h]
              /\ window = loc.win.h
              /\ main_handle = loc.win.h
              /\ result.msg = WindowText[loc.win.h]
         ELSE /\ result.kind = "LookupError"
              /\ app = None /\ window = None /\ main_handle = None
  /\ \/ app = None /\ window = None /\ main_handle = None
     \/ window \in MainWindows /\ app = OwnerPid[window] /\ main_handle = window

\* C18: a connect to the second application has succeeded while the first
\* was connected, and the session holds the second application's connection.
C18_Witness ==
  /\ pc = "idle" /\ result.act = "connect" /\ result.kind = "ok"
  /\ loc.tracked = "hMain"
  /\ app = "pidOther" /\ window = "hOther" /\ main_handle = "hOther"

\* C19: a step that changes the connection (process, window reference or
\* main-window handle) is the return of connect or of close_window; no step
\* of any other action, whether the action succeeds, fails or times out,
\* changes it.
C19_ActionsKeepConnection ==
  [][conn' # conn => (pc' = "idle" /\ result'.act \in {"connect", "close_window"})]_vars

\* C19: a click whose bounded call ran out of time has returned on a session
\* that is still connected.
C19_Witness ==
  /\ pc = "idle" /\ result.act = "click" /\ loc.timedOut # {}
  /\ app = "pidApp" /\ window = "hMain" /\ main_handle = "hMain"

\* C20: when send_keys returns after a call made while a dialog was
\* detected, it has failed with the "not supported" error of the raw
\* element's type_keys, which raises before any key is sent; when
\* save_screenshot returns after such a call, it has failed with the "not
\* supported" error of the raw element's capture_as_image, or with the
\* OSError of os.makedirs, which runs before the target is read; in both
\* cases image.save was not called.
C20_DialogUnsupported ==
  /\ (pc = "idle" /\ result.act = "send_keys" /\ loc.dlg \in DialogHandles) =>
       /\ result.kind = "RuntimeError"
       /\ result.msg = "Cannot send keys: send_keys to a modal dialog is not supported."
       /\ loc.win = Raw(loc.dlg, 1)
       /\ loc.tried = <<"set_focus", "type_keys">>
  /\ (pc = "idle" /\ result.act = "save_screenshot" /\ loc.dlg \in DialogHandles) =>
       /\ \/ /\ result.kind = "RuntimeError"
             /\ result.msg = "Cannot save screenshot: Screenshot of modal dialog is not supported."
             /\ loc.win = Raw(loc.dlg, 1)
             /\ loc.tried = <<"makedirs", "set_focus", "capture_as_image">>
          \/ /\ result.kind = "OSError"
             /\ loc.tried = <<"makedirs">>
       /\ \A i \in DOMAIN loc.tried : loc.tried[i] # "save"

\* C20: save_screenshot, called while a dialog was detected, has failed with
\* the "not supported" error of capture_as_image.
C20_Witness ==
  /\ pc = "idle" /\ result.act = "save_screenshot" /\ loc.dlg \in DialogHandles
  /\ result.msg = "Cannot save screenshot: Screenshot of modal dialog is not supported."

\* C20 as stated: send_keys and save_screenshot called while a dialog is
\* detected always fail with the "not supported" error.
C20_AlwaysUnsupported ==
  (/\ pc = "idle" /\ result.act \in {"send_keys", "save_screenshot"}
   /\ loc.dlg \in DialogHandles) =>
    /\ result.kind = "RuntimeError"
    /\ result.msg \in {"Cannot send keys: send_keys to a modal dialog is not supported.",
                       "Cannot save screenshot: Screenshot of modal dialog is not supported."}

\* C21: whenever select_item returns or raises after its element was
\* resolved, the last UI call it made on the element was collapse: the
\* collapse is attempted on every exit and before the outcome is reported.
C21_CollapseOnEveryExit ==
  (pc = "idle" /\ result.act = "select_item" /\ loc.el # NoElem) =>
    /\ loc.tried # <<>>
    /\ loc.tried[Len(loc.tried)] = "collapse"

\* C22: whenever select_grid_row ends for a row index that is negative or
\* not below the number of rows it counted, it has raised IndexError with
\* the message naming the range 0 to that number less one, and it has made
\* no Select call on any element; and no click is ever submitted for such
\* an index.
C22_OutOfRangeFails ==
  /\ (/\ pc = "idle" /\ result.act = "select_grid_row" /\ loc.win # NoElem
      /\ (loc.args[1] < 0 \/ loc.args[1] >= loc.args[2])) =>
       /\ result.kind = "IndexError"
       /\ result.msg = RangeMessage(loc.args[2] - 1)
       /\ loc.tried = <<>>
       /\ loc.el = loc.win
  /\ pc = "grid_click" => (loc.args[1] >= 0 /\ loc.args[1] < loc.args[2])

\* C22: select_grid_row has failed on the grid for the index one past its
\* last row.
C22_Witness ==
  /\ pc = "idle" /\ result.act = "select_grid_row" /\ result.kind = "IndexError"
  /\ loc.win = Rich("hMain", 11) /\ loc.args[2] > 0 /\ loc.args[1] = loc.args[2]

\* C23: the row select_grid_row acts on (a Select call or a click) is never
\* a header: its name does not contain "Header".
C23_HeaderNeverSelected ==
  (loc.act = "select_grid_row" /\ loc.tried # <<>>) =>
    ~Contains(ElementInfo(loc.el).name, "Header")

\* C24: when get_ui_tree(max_depth) returns, its lines are, in pre-order,
\* one for each element of the target window's tree at depth at most
\* max_depth and none for a deeper element; each line starts with two
\* spaces per level of its element's depth; and its name is the element's
\* name cut to its first 50 characters.
C24_TreeLines ==
  (pc = "idle" /\ result.act = "get_ui_tree" /\ result.kind = "ok") =>
    LET max_depth == loc.args[1]
        title == loc.args[2]
        lines == loc.args[3]
        all == <<loc.win>> \o Descendants(loc.win)
        Below(a) == {Descendants(a)[k] : k \in DOMAIN Descendants(a)}
        Depth(e) == Cardinality({j \in DOMAIN all : e \in Below(all[j])})
        shown == SelectSeq(all, LAMBDA e : Depth(e) <= max_depth)
    IN /\ Len(lines) = Len(shown)
       /\ \A i \in DOMAIN lines :
            /\ lines[i].el = shown[i]
            /\ lines[i].indent = [k \in 1..(2 * Depth(shown[i])) |-> " "]
            /\ Len(lines[i].name) <= 50
            /\ lines[i].name =
                 [k \in 1..(IF Len(NameChars(shown[i], title)) < 50
                              THEN Len(NameChars(shown[i], title)) ELSE 50)
                    |-> NameChars(shown[i], title)[k]]

\* C25: the pattern calls click makes on a resolved element are, in order,
\* invoke, toggle, and then expand when get_expand_state gave collapsed or
\* collapse when it gave another state; a call is made only after every
\* call before it has failed without timing out; and when click ends, it
\* returns "Clicked" if its last call returned, the timeout message if that
\* call timed out, and raises "Cannot click" only if that call failed and no
\* later pattern was left: all three were tried, or the element has no
\* toggle and no expand state (a raw element), or reading the state raised.
C25_ClickOrder ==
  (loc.act = "click" /\ loc.el # NoElem) =>
    LET tried == loc.tried
        ended == loc.ended
    IN /\ Len(tried) \in 1..3
       /\ tried[1] = "invoke"
       /\ Len(tried) >= 2 => tried[2] = "toggle"
       /\ Len(tried) = 3 =>
            /\ tried[3] \in {"expand", "collapse"}
            /\ (tried[3] = "expand") <=> (loc.args = <<"collapsed">>)
       /\ Len(ended) <= Len(tried)
       /\ \A i \in DOMAIN ended :
            /\ ended[i].call = tried[i]
            /\ i < Len(tried) => ended[i].how = "failed"
       /\ (pc = "idle" /\ result.act = "click") =>
            /\ Len(ended) = Len(tried)
            /\ LET last == ended[Len(ended)].how
               IN CASE last = "ok" -> result.kind = "ok" /\ result.msg = "Clicked"
                    [] last = "timed out" ->
                         /\ result.kind = "ok"
                         /\ result.msg \in {"A dialog appeared",
                                            "timed out but no dialog was detected"}
                    [] OTHER ->
                         /\ result = CannotClick
                         /\ \/ Len(tried) = 3
                            \/ loc.el.kind = "raw"
                            \/ Len(tried) = 2 /\ loc.args = <<"raises">>

\* C25: click has returned "Clicked" from collapse, its third pattern, after
\* invoke and toggle both failed.
C25_Witness ==
  /\ pc = "idle" /\ result.act = "click" /\ result.msg = "Clicked"
  /\ loc.tried = <<"invoke", "toggle", "collapse">>
  /\ loc.ended[1].how = "failed" /\ loc.ended[2].how = "failed"

\* C26: find_element called on a connected session with a selector that has
\* a parent resolves the parent against the current target first.  If the
\* parent has no criteria or matches nothing below the target, the call
\* fails with LookupError; otherwise the search starts from the first match
\* of the parent, and the call returns an element of the subtree below it
\* or fails with LookupError: an element outside that subtree is never
\* returned.
C26_ParentScope ==
  (/\ loc.act = "find_element" /\ loc.sel.parent # <<>>
   /\ HasCriteria(loc.sel) /\ loc.tracked # None) =>
    LET psel == loc.sel.parent[1]
        target == IF loc.dlg # None THEN Raw(loc.dlg, 1) ELSE Rich(loc.tracked, 1)
        Agrees(v, p) == v \in {Absent, None} \/ v = p
        IsParent(e) == /\ Agrees(psel.title, ElementInfo(e).name)
                       /\ Agrees(psel.control_type, ElementInfo(e).control_type)
                       /\ Agrees(psel.auto_id, ElementInfo(e).automation_id)
        pcands == SelectSeq(Descendants(target), IsParent)
    IN IF ~HasCriteria(psel) \/ pcands = <<>>
         THEN result.kind = "LookupError" /\ loc.el = NoElem
         ELSE /\ loc.win = pcands[1]
              /\ result.kind \in {"ok", "LookupError"}
              /\ result.kind = "ok" =>
                   \E k \in DOMAIN Descendants(pcands[1]) : loc.el = Descendants(pcands[1])[k]
              /\ result.kind = "LookupError" => loc.el = NoElem

\* C26: a selector that the OK button of the window matches, searched under
\* the application's menu bar, has failed: the button is outside the menu
\* bar's subtree.
C26_Witness ==
  /\ loc.act = "find_element"
  /\ loc.sel = Under(Sel(Absent, "Button", Absent), Sel("Application", Absent, Absent))
  /\ loc.win = Rich("hMain", 3)
  /\ result.kind = "LookupError" /\ result.msg = "Element not found"
  /\ Search(Rich("hMain", 1), Sel(Absent, "Button", Absent)) # NoElem

\* C27: whenever no operation is in progress, the process reference, the
\* window reference and the main-window handle are all set or all unset.
C27_AllOrNothing ==
  pc = "idle" =>
    \/ app = None /\ window = None /\ main_handle = None
    \/ app # None /\ window # None /\ main_handle # None

\* C27: a connect attempted on a connected session has failed and left all
\* three parts unset.
C27_Witness ==
  /\ pc = "idle"
  /\ result.act = "connect" /\ result.kind = "LookupError"
  /\ loc.act = "connect" /\ loc.tracked # None
  /\ app = None /\ window = None /\ main_handle = None

\* C28: when the window property is read on a connected session while a
\* visible window of the connected process other than the main window
\* exists, the read succeeds and returns such a window as a raw element,
\* whatever the state of the tracked main window: it fails neither with
\* "no longer exists" nor with "is minimized".
C28_DialogPrecedence ==
  (/\ loc.act = "window" /\ loc.tracked # None
   /\ \E h \in loc.args[1] : OwnerPid[h] = "pidApp" /\ h # loc.tracked) =>
    /\ result.kind = "ok"
    /\ loc.win.kind = "raw" /\ loc.win.n = 1
    /\ loc.win.h \in loc.args[1]
    /\ OwnerPid[loc.win.h] = "pidApp" /\ loc.win.h # loc.tracked
    /\ result.msg \notin {"Connected window no longer exists.", "Window is minimized."}

\* C28: the window property was read while the tracked main window no
\* longer existed and a dialog of the process was visible, and gave the
\* dialog.
C28_Witness ==
  /\ loc.act = "window" /\ loc.tracked = "hMain" /\ loc.main = "gone"
  /\ "hDlgA" \in loc.args[1] /\ "hDlgB" \notin loc.args[1]
  /\ result.kind = "ok" /\ loc.win = Raw("hDlgA", 1)

\* C29: when close_window is called while a dialog is detected, its target
\* is the dialog: no close request is made, neither to the main window nor
\* to the dialog, the call returns "Window closed" and the process
\* reference, the window reference and the main-window handle are unset.
C29_CloseWithDialog ==
  (loc.act = "close_window" /\ loc.dlg # None) =>
    /\ loc.dlg \in DialogHandles
    /\ loc.win = Raw(loc.dlg, 1)
    /\ loc.tried = <<>>
    /\ pc = "idle"
    /\ result.act = "close_window" /\ result.kind = "ok" /\ result.msg = "Window closed"
    /\ app = None /\ window = None /\ main_handle = None

\* C29: close_window was called with a dialog open over an existing main
\* window; the connection is cleared and the main window is still there.
C29_Witness ==
  /\ loc.act = "close_window" /\ loc.dlg = "hDlgA" /\ loc.tried = <<>>
  /\ app = None /\ mainState["hMain"] = "normal" /\ "hDlgA" \in visible
  /\ result.msg = "Window closed"

\* C30: a find_element that searched from a root (the current target, or the
\* resolved parent) never returns that root: what it returns is an element
\* of the subtree strictly below the root, and when the root satisfies the
\* selector and no element below it does, the call fails with LookupError
\* "Element not found".
C30_RootNeverReturned ==
  (loc.act = "find_element" /\ loc.win # NoElem) =>
    LET below == Descendants(loc.win)
        Agrees(v, p) == v \in {Absent, None} \/ v = p
        Hit(e) == /\ Agrees(loc.sel.title, ElementInfo(e).name)
                  /\ Agrees(loc.sel.control_type, ElementInfo(e).control_type)
                  /\ Agrees(loc.sel.auto_id, ElementInfo(e).automation_id)
    IN /\ loc.el # loc.win
       /\ result.kind = "ok" => \E k \in DOMAIN below : loc.el = below[k]
       /\ (Hit(loc.win) /\ \A k \in DOMAIN below : ~Hit(below[k])) =>
            /\ result.kind = "LookupError" /\ result.msg = "Element not found"
            /\ loc.el = NoElem

\* C30: find_element was called for control type Window on the main window,
\* which alone has that control type, and failed.
C30_Witness ==
  /\ loc.act = "find_element" /\ loc.sel = Sel(Absent, "Window", Absent)
  /\ loc.win = Rich("hMain", 1)
  /\ ElementInfo(loc.win).control_type = "Window"
  /\ result.kind = "LookupError" /\ result.msg = "Element not found"

====
